---- MODULE Spec2Model ----
(***************************************************************************)
(* Authentication & Session Core of the file-processing backend:           *)
(*   - the OIDC client singleton      (utils/cognito-config.js)            *)
(*   - the /callback redirect flow    (app.js)                             *)
(*   - the bearer token middlewares   (middleware/auth.js)                 *)
(*   - AuthService.verifyToken        (utils/auth-service.js)              *)
(***************************************************************************)
EXTENDS Integers, Sequences, FiniteSets, TLC

(***************************************************************************)
(* Bounds                                                                  *)
(***************************************************************************)
\* Issuer.discover calls explored (callers may retry up to this many)
MaxDiscover == 3

(***************************************************************************)
(* JavaScript values                                                       *)
(***************************************************************************)
\* null, for the client object
Null == 0

\* undefined, for strings
Undefined == "undefined"

\* an object-valued field: unset, or set to x
Unset == {}
Set(x) == {x}

\* the module-load call of app.js, and two other users of the exported API
Startup == "startup"
ApiCallers == {"a", "b"}

\* /callback requests being handled
CbReqs == {"r1", "r2"}

\* everything that can sit in an await of initializeOIDCClient
Tasks == {Startup} \cup ApiCallers \cup CbReqs

VARIABLES
  oidcClient,       \* cognito-config.js: let oidcClient
  oidcClientReady,  \* app.js: let oidcClientReady
  pc,               \* position of every task
  fn,               \* which exported function an API caller is in
  ret,              \* what the call of a task settled with
  discoverCalls,    \* Issuer.discover calls issued so far
  settled,          \* Issuer.discover calls that resolved or rejected
  built,            \* issuer.Client objects constructed so far
  session,          \* req.session of the browser: nonce, state, userInfo, tokens
  cbParams,         \* client.callbackParams(req) of every /callback request
  cbChecks,         \* the checks object handed to client.callback
  cbStored,         \* state and nonce the session held when they were checked
  cbTokenSet,       \* const tokenSet of every /callback request
  cbErr,            \* the err caught by a /callback request
  redirect,         \* res.redirect target of every /callback request
  exchanges,        \* token endpoint requests issued for a /callback request
  writes,           \* assignments to req.session made by a /callback request
  idpUp,            \* whether the IdP can be reached
  mwPc,             \* position of every request in its bearer middleware
  mwKind,           \* the middleware a request runs through
  headers,          \* req.headers['authorization']
  reqUser,          \* req.user
  reqAccessToken,   \* req.accessToken
  res,              \* the response the middleware sent, if any
  nextCalls,        \* calls of next()
  verifyCalls,      \* calls of authService.verifyToken
  getUser,          \* how cognitoISP.getUser settled for the request
  verified,         \* what verifyToken returned for the request
  handlerSaw,       \* req.user and req.accessToken when next() was called
  cognitoConfig,    \* cognito-config.js: ClientId and ClientSecret
  missingVars,      \* cognito-config.js: required settings the environment lacks
  hashPc,           \* position of the calculateSecretHash calls compared
  hashIn,           \* their inputs: username, client id, client secret
  hashOut,          \* what they returned
  authCall,         \* the adapter calls: request sent, IdP outcome, result
  courses,          \* the committed rows of table courses
  courseReq,        \* the /api/courses requests being handled
  sqsQueue,         \* the messages the queue accepted, oldest first
  clock,            \* Date.now(), in minutes
  cache,            \* instance-metadata-service.js: let cache
  cacheUntil,       \* instance-metadata-service.js: let cacheUntil
  imdsCall,         \* the fetchInstanceIdentity calls
  wallClock,        \* Date.now(), in milliseconds
  waitCall          \* the waitForFileMetadata call

oidcVars == <<oidcClient, oidcClientReady, pc, fn, ret, discoverCalls,
              settled, built>>

\* the singleton's variables other than the positions
oidcData == <<oidcClient, oidcClientReady, fn, ret, discoverCalls, settled,
              built>>

cbVars == <<session, cbParams, cbChecks, cbStored, cbTokenSet, cbErr, redirect,
            exchanges, writes>>

mwVars == <<idpUp, mwPc, mwKind, headers, reqUser, reqAccessToken, res,
            nextCalls, verifyCalls, getUser, verified, handlerSaw>>

hashVars == <<hashPc, hashIn, hashOut>>

configVars == <<cognitoConfig, missingVars>>

authVars == <<configVars, hashVars, authCall>>

courseVars == <<courses, courseReq, sqsQueue>>

imdsVars == <<clock, cache, cacheUntil, imdsCall>>

waitVars == <<wallClock, waitCall>>

svcVars == <<courseVars, imdsVars, waitVars>>

vars == <<oidcVars, cbVars, mwVars, authVars, svcVars>>

\* the value a task holds when its call threw
Rejected == -1

(***************************************************************************)
(* cognito-config.js                                                       *)
(***************************************************************************)
\* `if (oidcClient) return oidcClient;` -- the client is there
ReturnCached(t) ==
  /\ oidcClient # Null
  /\ ret' = [ret EXCEPT ![t] = oidcClient]
  /\ UNCHANGED <<oidcClient, discoverCalls, settled, built>>

\* the synchronous part of initializeOIDCClient up to `await Issuer.discover`.
\* cognitoConfig.IssuerUrl always has a default, so line 68 never throws.
StartDiscover(t) ==
  /\ oidcClient = Null
  /\ discoverCalls < MaxDiscover
  /\ discoverCalls' = discoverCalls + 1
  /\ UNCHANGED <<oidcClient, ret, settled, built>>

\* initializeOIDCClient() called by an API caller
initializeOIDCClient(t) ==
  /\ t \in ApiCallers
  /\ pc[t] = "idle"
  /\ fn' = [fn EXCEPT ![t] = "initializeOIDCClient"]
  /\ \/ ReturnCached(t) /\ pc' = [pc EXCEPT ![t] = "returned"]
     \/ StartDiscover(t) /\ pc' = [pc EXCEPT ![t] = "discovering"]
  /\ UNCHANGED oidcClientReady
  /\ UNCHANGED <<cbVars, mwVars, authVars, svcVars>>

\* getOIDCClient() called by an API caller
getOIDCClient(t) ==
  /\ t \in ApiCallers
  /\ pc[t] = "idle"
  /\ fn' = [fn EXCEPT ![t] = "getOIDCClient"]
  /\ IF oidcClient = Null
       THEN StartDiscover(t) /\ pc' = [pc EXCEPT ![t] = "discovering"]
       ELSE ReturnCached(t) /\ pc' = [pc EXCEPT ![t] = "returned"]
  /\ UNCHANGED oidcClientReady
  /\ UNCHANGED <<cbVars, mwVars, authVars, svcVars>>

\* what a task does once its initializeOIDCClient call settled
AfterSettle(t, ok) ==
  IF t \in CbReqs
    THEN IF ok THEN "exchange" ELSE "catch"
    ELSE IF ok THEN "returned" ELSE "rejected"

\* Issuer.discover resolved: lines 76-84 build a client and store it
DiscoverResolve(t) ==
  /\ pc[t] = "discovering"
  /\ built' = built + 1
  /\ oidcClient' = built + 1
  /\ ret' = [ret EXCEPT ![t] = built + 1]
  /\ settled' = settled + 1
  /\ pc' = [pc EXCEPT ![t] = AfterSettle(t, TRUE)]
  /\ UNCHANGED <<oidcClientReady, fn, discoverCalls>>
  /\ UNCHANGED <<cbVars, mwVars, authVars, svcVars>>

\* Issuer.discover rejected: lines 85-89 log and rethrow
DiscoverReject(t) ==
  /\ pc[t] = "discovering"
  /\ ret' = [ret EXCEPT ![t] = Rejected]
  /\ settled' = settled + 1
  /\ pc' = [pc EXCEPT ![t] = AfterSettle(t, FALSE)]
  /\ UNCHANGED <<oidcClient, oidcClientReady, fn, discoverCalls, built>>
  /\ UNCHANGED <<cbVars, mwVars, authVars, svcVars>>

\* an API caller comes back for another call
CallAgain(t) ==
  /\ t \in ApiCallers
  /\ pc[t] \in {"returned", "rejected"}
  /\ pc' = [pc EXCEPT ![t] = "idle"]
  /\ UNCHANGED <<oidcClient, oidcClientReady, fn, ret, discoverCalls,
                 settled, built>>
  /\ UNCHANGED <<cbVars, mwVars, authVars, svcVars>>

(***************************************************************************)
(* app.js, module load                                                     *)
(***************************************************************************)
\* line 140: initializeOIDCClient()
StartupInitialize ==
  /\ pc[Startup] = "idle"
  /\ \/ ReturnCached(Startup) /\ pc' = [pc EXCEPT ![Startup] = "returned"]
     \/ StartDiscover(Startup) /\ pc' = [pc EXCEPT ![Startup] = "discovering"]
  /\ UNCHANGED <<oidcClientReady, fn>>
  /\ UNCHANGED <<cbVars, mwVars, authVars, svcVars>>

\* lines 141-144: .then(() => { oidcClientReady = true })
StartupThen ==
  /\ pc[Startup] = "returned"
  /\ oidcClientReady' = TRUE
  /\ pc' = [pc EXCEPT ![Startup] = "finished"]
  /\ UNCHANGED <<oidcClient, fn, ret, discoverCalls, settled, built>>
  /\ UNCHANGED <<cbVars, mwVars, authVars, svcVars>>

\* a catch that lets requests through all the same
StartupCatchSetsReady ==
  /\ pc[Startup] = "rejected"
  /\ pc' = [pc EXCEPT ![Startup] = "finished"]
  /\ oidcClientReady' = TRUE
  /\ UNCHANGED <<oidcClient, fn, ret, discoverCalls, settled, built>>
  /\ UNCHANGED <<cbVars, mwVars, authVars, svcVars>>

\* lines 145-147: .catch(error => console.error(...))
StartupCatch ==
  /\ pc[Startup] = "rejected"
  /\ pc' = [pc EXCEPT ![Startup] = "finished"]
  /\ UNCHANGED <<oidcClient, oidcClientReady, fn, ret, discoverCalls,
                 settled, built>>
  /\ UNCHANGED <<cbVars, mwVars, authVars, svcVars>>

(***************************************************************************)
(* app.js, GET /callback                                                   *)
(***************************************************************************)
\* values of the state parameter and of the nonce
StateVals == {"x", "y"}
NonceVals == {"n", "m"}

\* the code parameter of a callback: absent, one the IdP accepts, one it rejects
CodeVals == {"none", "good", "bad"}

LoginRedirect == "/login"

\* the catch redirecting to the login page without the error parameter
ErrorRedirectPlain == "/login"

ErrorRedirect == "/login?error=authentication_failed"
HomeRedirect == "/"

NoTokenSet == [access_token |-> Undefined, id_token |-> Undefined,
               refresh_token |-> Undefined]
NoChecks == [nonce |-> Undefined, state |-> Undefined]
NotRead == [nonce |-> "not read", state |-> "not read"]

\* the authorize redirect stores a fresh state and nonce in the session
AuthorizeRedirect ==
  /\ session.state = Undefined
  /\ \E st \in StateVals, n \in NonceVals :
       session' = [session EXCEPT !.state = st, !.nonce = n]
  /\ UNCHANGED <<oidcVars, cbParams, cbChecks, cbStored, cbTokenSet, cbErr,
                 redirect, exchanges, writes>>
  /\ UNCHANGED <<mwVars, authVars, svcVars>>

\* lines 179-185: the readiness gate, then `await getOIDCClient()`
CallbackRequest(r) ==
  /\ r \in CbReqs
  /\ pc[r] = "idle"
  /\ \E st \in StateVals \cup {Undefined}, c \in CodeVals :
       cbParams' = [cbParams EXCEPT ![r] = [state |-> st, code |-> c]]
  /\ IF ~oidcClientReady
       THEN /\ redirect' = [redirect EXCEPT ![r] = LoginRedirect]
            /\ pc' = [pc EXCEPT ![r] = "done"]
            /\ UNCHANGED <<oidcClient, ret, discoverCalls, settled, built>>
       ELSE /\ IF oidcClient = Null
                 THEN StartDiscover(r) /\ pc' = [pc EXCEPT ![r] = "discovering"]
                 ELSE ReturnCached(r) /\ pc' = [pc EXCEPT ![r] = "exchange"]
            /\ UNCHANGED redirect
  /\ UNCHANGED <<oidcClientReady, fn, session, cbChecks, cbStored, cbTokenSet,
                 cbErr, exchanges, writes>>
  /\ UNCHANGED <<mwVars, authVars, svcVars>>

\* openid-client: the state check client.callback makes before any request
StateCheckPasses(params, checks) == params.state = checks.state

\* client.callback checked against the state of the request itself
CallbackChecksFromParams(r) ==
  [nonce |-> session.nonce, state |-> cbParams[r].state]

\* lines 186-198: client.callback(RedirectUri, params, {nonce, state}) is
\* called with the values the session holds now
CallbackChecks(r) == [nonce |-> session.nonce, state |-> session.state]

CallbackExchange(r) ==
  /\ r \in CbReqs
  /\ pc[r] = "exchange"
  /\ cbChecks' = [cbChecks EXCEPT ![r] = CallbackChecks(r)]
  /\ cbStored' = [cbStored EXCEPT ![r] =
                    [nonce |-> session.nonce, state |-> session.state]]
  /\ IF ~StateCheckPasses(cbParams[r], CallbackChecks(r))
       THEN /\ cbErr' = [cbErr EXCEPT ![r] = "state mismatch"]
            /\ pc' = [pc EXCEPT ![r] = "catch"]
            /\ UNCHANGED <<exchanges, cbTokenSet>>
       ELSE IF cbParams[r].code = "none"
         THEN \* no code to exchange: the token set is built from the params
              /\ cbTokenSet' = [cbTokenSet EXCEPT ![r] = NoTokenSet]
              /\ pc' = [pc EXCEPT ![r] = "userinfo"]
              /\ UNCHANGED <<exchanges, cbErr>>
         ELSE /\ exchanges' = [exchanges EXCEPT ![r] = @ + 1]
              /\ pc' = [pc EXCEPT ![r] = "exchanging"]
              /\ UNCHANGED <<cbErr, cbTokenSet>>
  /\ UNCHANGED <<oidcData, session, cbParams, redirect, writes>>
  /\ UNCHANGED <<mwVars, authVars, svcVars>>

\* the token endpoint answered: a token set whose ID token carries the nonce
\* of the authorize request, validated against checks.nonce
ExchangeResolve(r) ==
  /\ r \in CbReqs
  /\ pc[r] = "exchanging"
  /\ cbParams[r].code = "good"
  /\ \E n \in NonceVals \cup {Undefined} :
       IF n = cbChecks[r].nonce
         THEN /\ cbTokenSet' = [cbTokenSet EXCEPT ![r] =
                   [access_token |-> "at", id_token |-> "it",
                    refresh_token |-> "rt"]]
              /\ pc' = [pc EXCEPT ![r] = "userinfo"]
              /\ UNCHANGED cbErr
         ELSE /\ cbErr' = [cbErr EXCEPT ![r] = "nonce mismatch"]
              /\ pc' = [pc EXCEPT ![r] = "catch"]
              /\ UNCHANGED cbTokenSet
  /\ UNCHANGED <<oidcData, session, cbParams, cbChecks, cbStored, redirect,
                 exchanges, writes>>
  /\ UNCHANGED <<mwVars, authVars, svcVars>>

\* the token endpoint refused the code, or could not be reached
ExchangeReject(r) ==
  /\ r \in CbReqs
  /\ pc[r] = "exchanging"
  /\ cbErr' = [cbErr EXCEPT ![r] = "code exchange error"]
  /\ pc' = [pc EXCEPT ![r] = "catch"]
  /\ UNCHANGED <<oidcData, session, cbParams, cbChecks, cbStored, cbTokenSet,
                 redirect, exchanges, writes>>
  /\ UNCHANGED <<mwVars, authVars, svcVars>>

\* lines 202-207 without the assignment of req.session.tokens
PersistUserInfoOnly(sess, userInfo, tokenSet) ==
  [session |-> [sess EXCEPT !.userInfo = Set(userInfo)],
   written |-> <<"userInfo">>]

\* lines 202-207 without the assignment of req.session.userInfo
PersistTokensOnly(sess, userInfo, tokenSet) ==
  [session |-> [sess EXCEPT
                  !.tokens = Set([accessToken |-> tokenSet.access_token,
                                  idToken |-> tokenSet.id_token,
                                  refreshToken |-> tokenSet.refresh_token])],
   written |-> <<"tokens">>]

\* lines 202-207: the two assignments to req.session, in order
PersistSession(sess, userInfo, tokenSet) ==
  [session |-> [sess EXCEPT
                  !.userInfo = Set(userInfo),
                  !.tokens = Set([accessToken |-> tokenSet.access_token,
                                  idToken |-> tokenSet.id_token,
                                  refreshToken |-> tokenSet.refresh_token])],
   written |-> <<"userInfo", "tokens">>]

\* how often a field occurs among the fields written
Times(written, field) ==
  Cardinality({i \in 1..Len(written) : written[i] = field})

\* lines 201-211: client.userinfo answered; the session is written and the
\* browser sent home.  Without an access token openid-client sends nothing.
UserinfoResolve(r) ==
  /\ r \in CbReqs
  /\ pc[r] = "userinfo"
  /\ cbTokenSet[r].access_token # Undefined
  /\ LET persisted == PersistSession(session, "userInfo", cbTokenSet[r])
     IN /\ session' = persisted.session
        /\ writes' = [writes EXCEPT ![r] =
               [userInfo |-> @.userInfo + Times(persisted.written, "userInfo"),
                tokens |-> @.tokens + Times(persisted.written, "tokens")]]
  /\ redirect' = [redirect EXCEPT ![r] = HomeRedirect]
  /\ pc' = [pc EXCEPT ![r] = "done"]
  /\ UNCHANGED <<oidcData, cbParams, cbChecks, cbStored, cbTokenSet, cbErr,
                 exchanges>>
  /\ UNCHANGED <<mwVars, authVars, svcVars>>

\* client.userinfo threw: no access token, or the userinfo endpoint failed
UserinfoReject(r) ==
  /\ r \in CbReqs
  /\ pc[r] = "userinfo"
  /\ cbErr' = [cbErr EXCEPT ![r] = "userinfo fetch error"]
  /\ pc' = [pc EXCEPT ![r] = "catch"]
  /\ UNCHANGED <<oidcData, session, cbParams, cbChecks, cbStored, cbTokenSet,
                 redirect, exchanges, writes>>
  /\ UNCHANGED <<mwVars, authVars, svcVars>>

\* lines 212-215: catch (err) { res.redirect('/login?error=...') }
CallbackCatch(r) ==
  /\ r \in CbReqs
  /\ pc[r] = "catch"
  /\ redirect' = [redirect EXCEPT ![r] = ErrorRedirect]
  /\ pc' = [pc EXCEPT ![r] = "done"]
  /\ UNCHANGED <<oidcData, session, cbParams, cbChecks, cbStored, cbTokenSet,
                 cbErr, exchanges, writes>>
  /\ UNCHANGED <<mwVars, authVars, svcVars>>

(***************************************************************************)
(* utils/auth-service.js, verifyToken                                      *)
(***************************************************************************)
\* characters of an Authorization header: a scheme letter, the separator,
\* and letters of a token
Chars == {"b", " ", "t"}

\* longest Authorization header explored
MaxHeaderLen == 2

HeaderStrings == UNION {[1..n -> Chars] : n \in 0..MaxHeaderLen}

\* access tokens the IdP accepts; every other token is invalid or expired
ValidTokens == {<<"t">>}

UserOf(token) == [Username |-> "user", AccessToken |-> token]

\* messages of the errors cognitoISP.getUser rejects with
CredentialMessages == {"Invalid Access Token", "Access Token has expired"}
NetworkMessages == {"Inaccessible host", ""}

\* a verifyToken that answers from a cache of verified tokens when the IdP
\* cannot be reached
verifyTokenCached(outcome) ==
  IF outcome.kind = "resolved"
    THEN [threw |-> FALSE, success |-> TRUE, user |-> Set(outcome.user),
          error |-> Undefined]
    ELSE IF outcome.message \in NetworkMessages
      THEN [threw |-> FALSE, success |-> TRUE,
            user |-> Set(UserOf(<<"t">>)), error |-> Undefined]
      ELSE [threw |-> FALSE, success |-> FALSE, user |-> Unset,
            error |-> outcome.message]

\* lines 282-300: the envelope verifyToken returns for a settled getUser
\* call; it catches every rejection, so it never throws
verifyToken(outcome) ==
  IF outcome.kind = "resolved"
    THEN [threw |-> FALSE, success |-> TRUE, user |-> Set(outcome.user),
          error |-> Undefined]
    ELSE [threw |-> FALSE, success |-> FALSE, user |-> Unset,
          error |-> IF outcome.message # ""
                      THEN outcome.message
                      ELSE "Token verification failed"]

(***************************************************************************)
(* middleware/auth.js                                                      *)
(***************************************************************************)
MwReqs == {"m1", "m2"}

\* String.prototype.split(' ')
Split(str) ==
  LET parts[i \in 0..Len(str)] ==
        IF i = 0 THEN << <<>> >>
        ELSE IF str[i] = " "
          THEN Append(parts[i - 1], <<>>)
          ELSE [parts[i - 1] EXCEPT ![Len(parts[i - 1])] = Append(@, str[i])]
  IN parts[Len(str)]

\* lines 58-59 and 98-99: authHeader && authHeader.split(' ')[1]
ExtractToken(authHeader) ==
  IF authHeader = Unset THEN Unset
  ELSE LET str == CHOOSE h \in authHeader : TRUE IN
       IF str = <<>> THEN Set(<<>>)
       ELSE IF Len(Split(str)) >= 2 THEN Set(Split(str)[2]) ELSE Unset

\* a test for undefined alone, which lets '' through
FalsyUndefinedOnly(token) == token = Unset

\* !token: undefined and '' are falsy
Falsy(token) == token = Unset \/ token = Set(<<>>)

NoResponse == [status |-> 0, error |-> Undefined]

\* lines 62-65
MissingTokenResponse == [status |-> 401, error |-> "Access token required"]

\* lines 71-74
InvalidTokenResponse(result) ==
  [status |-> 403,
   error |-> IF result.error # Undefined /\ result.error # ""
               THEN result.error ELSE "Invalid token"]

\* lines 83-86
ServerErrorResponse == [status |-> 500, error |-> "Authentication failed"]

\* authenticateToken without the `return` of the 403 branch
StrictOutcomeNoReturn(result) ==
  IF result.threw
    THEN [effects |-> <<>>, res |-> ServerErrorResponse]
  ELSE IF ~result.success
    THEN [effects |-> <<"attach", "next">>, res |-> InvalidTokenResponse(result)]
  ELSE [effects |-> <<"attach", "next">>, res |-> NoResponse]

\* authenticateToken calling next() before it attaches the identity
StrictOutcomeNextFirst(result) ==
  IF result.threw
    THEN [effects |-> <<>>, res |-> ServerErrorResponse]
  ELSE IF ~result.success
    THEN [effects |-> <<>>, res |-> InvalidTokenResponse(result)]
  ELSE [effects |-> <<"next", "attach">>, res |-> NoResponse]

\* lines 68-87: what authenticateToken does, in order, with the result of
\* verifyToken
StrictOutcome(result) ==
  IF result.threw
    THEN [effects |-> <<>>, res |-> ServerErrorResponse]
  ELSE IF ~result.success
    THEN [effects |-> <<>>, res |-> InvalidTokenResponse(result)]
  ELSE [effects |-> <<"attach", "next">>, res |-> NoResponse]

\* optionalAuth rejecting a failed verification as authenticateToken does
OptionalOutcomeRejects(result) ==
  IF result.threw
    THEN [effects |-> <<"next">>, res |-> NoResponse]
  ELSE IF result.success
    THEN [effects |-> <<"attach", "next">>, res |-> NoResponse]
  ELSE [effects |-> <<>>, res |-> InvalidTokenResponse(result)]

\* optionalAuth attaching whatever verifyToken returned
OptionalOutcomeAlwaysAttach(result) ==
  IF result.threw
    THEN [effects |-> <<"next">>, res |-> NoResponse]
  ELSE [effects |-> <<"attach", "next">>, res |-> NoResponse]

\* lines 102-113: what optionalAuth does, in order, with the result of
\* verifyToken
OptionalOutcome(result) ==
  IF result.threw
    THEN [effects |-> <<"next">>, res |-> NoResponse]
  ELSE IF result.success
    THEN [effects |-> <<"attach", "next">>, res |-> NoResponse]
  ELSE [effects |-> <<"next">>, res |-> NoResponse]

\* lines 56-68: authenticateToken up to `await authService.verifyToken(token)`
authenticateToken(m) ==
  /\ mwPc[m] = "idle"
  /\ mwKind' = [mwKind EXCEPT ![m] = "strict"]
  /\ \E h \in {Unset} \cup {Set(str) : str \in HeaderStrings} :
       /\ headers' = [headers EXCEPT ![m] = h]
       /\ IF Falsy(ExtractToken(h))
            THEN /\ res' = [res EXCEPT ![m] = MissingTokenResponse]
                 /\ mwPc' = [mwPc EXCEPT ![m] = "done"]
                 /\ UNCHANGED verifyCalls
            ELSE /\ verifyCalls' = [verifyCalls EXCEPT ![m] = @ + 1]
                 /\ mwPc' = [mwPc EXCEPT ![m] = "verifying"]
                 /\ UNCHANGED res
  /\ UNCHANGED <<idpUp, reqUser, reqAccessToken, nextCalls, getUser,
                 verified, handlerSaw>>
  /\ UNCHANGED <<oidcVars, cbVars, authVars, svcVars>>

\* lines 96-102: optionalAuth up to `await authService.verifyToken(token)`
optionalAuth(m) ==
  /\ mwPc[m] = "idle"
  /\ mwKind' = [mwKind EXCEPT ![m] = "permissive"]
  /\ \E h \in {Unset} \cup {Set(str) : str \in HeaderStrings} :
       /\ headers' = [headers EXCEPT ![m] = h]
       /\ IF Falsy(ExtractToken(h))
            THEN /\ nextCalls' = [nextCalls EXCEPT ![m] = @ + 1]
                 /\ handlerSaw' = [handlerSaw EXCEPT ![m] =
                      [user |-> reqUser[m], accessToken |-> reqAccessToken[m]]]
                 /\ mwPc' = [mwPc EXCEPT ![m] = "done"]
                 /\ UNCHANGED verifyCalls
            ELSE /\ verifyCalls' = [verifyCalls EXCEPT ![m] = @ + 1]
                 /\ mwPc' = [mwPc EXCEPT ![m] = "verifying"]
                 /\ UNCHANGED <<nextCalls, handlerSaw>>
  /\ UNCHANGED <<idpUp, reqUser, reqAccessToken, res, getUser, verified>>
  /\ UNCHANGED <<oidcVars, cbVars, authVars, svcVars>>

\* the token a request in verifyToken presented
TokenOf(m) == CHOOSE tok \in ExtractToken(headers[m]) : TRUE

\* positions of an effect in a sequence of effects
Positions(effects, e) == {i \in 1..Len(effects) : effects[i] = e}

\* the middleware resumes with the result of verifyToken and runs the
\* effects in order; the handler behind next() sees the request as it is then
Resume(m, result) ==
  LET out == IF mwKind[m] = "strict" THEN StrictOutcome(result)
                                     ELSE OptionalOutcome(result)
      attaches == Positions(out.effects, "attach")
      nexts == Positions(out.effects, "next")
      identity == [user |-> result.user, accessToken |-> Set(TokenOf(m))]
      before == [user |-> reqUser[m], accessToken |-> reqAccessToken[m]]
      firstNext == CHOOSE i \in nexts : \A j \in nexts : i <= j
  IN /\ reqUser' = [reqUser EXCEPT ![m] =
                      IF attaches # {} THEN identity.user ELSE @]
     /\ reqAccessToken' = [reqAccessToken EXCEPT ![m] =
                      IF attaches # {} THEN identity.accessToken ELSE @]
     /\ nextCalls' = [nextCalls EXCEPT ![m] = @ + Cardinality(nexts)]
     /\ handlerSaw' = [handlerSaw EXCEPT ![m] =
                      IF nexts = {} THEN @
                      ELSE IF \E i \in attaches : i < firstNext
                        THEN identity ELSE before]
     /\ verified' = [verified EXCEPT ![m] =
                      IF result.threw THEN "threw"
                      ELSE IF result.success THEN "success" ELSE "failure"]
     /\ res' = [res EXCEPT ![m] = out.res]
     /\ mwPc' = [mwPc EXCEPT ![m] = "done"]

\* cognitoISP.getUser resolved: the IdP knows the token
GetUserResolve(m) ==
  /\ mwPc[m] = "verifying"
  /\ idpUp
  /\ TokenOf(m) \in ValidTokens
  /\ getUser' = [getUser EXCEPT ![m] = "resolved"]
  /\ Resume(m, verifyToken([kind |-> "resolved", user |-> UserOf(TokenOf(m))]))
  /\ UNCHANGED <<idpUp, mwKind, headers, verifyCalls>>
  /\ UNCHANGED <<oidcVars, cbVars, authVars, svcVars>>

\* cognitoISP.getUser rejected: the IdP refuses the token
GetUserNotAuthorized(m) ==
  /\ mwPc[m] = "verifying"
  /\ idpUp
  /\ TokenOf(m) \notin ValidTokens
  /\ getUser' = [getUser EXCEPT ![m] = "NotAuthorizedException"]
  /\ \E msg \in CredentialMessages :
       Resume(m, verifyToken([kind |-> "rejected", message |-> msg]))
  /\ UNCHANGED <<idpUp, mwKind, headers, verifyCalls>>
  /\ UNCHANGED <<oidcVars, cbVars, authVars, svcVars>>

\* cognitoISP.getUser rejected: the IdP cannot be reached
GetUserNetworkError(m) ==
  /\ mwPc[m] = "verifying"
  /\ ~idpUp
  /\ getUser' = [getUser EXCEPT ![m] = "NetworkingError"]
  /\ \E msg \in NetworkMessages :
       Resume(m, verifyToken([kind |-> "rejected", message |-> msg]))
  /\ UNCHANGED <<idpUp, mwKind, headers, verifyCalls>>
  /\ UNCHANGED <<oidcVars, cbVars, authVars, svcVars>>

\* the IdP goes away and comes back
IdpOutage ==
  /\ idpUp
  /\ idpUp' = FALSE
  /\ UNCHANGED <<mwPc, mwKind, headers, reqUser, reqAccessToken, res,
                 nextCalls, verifyCalls, getUser, verified, handlerSaw>>
  /\ UNCHANGED <<oidcVars, cbVars, authVars, svcVars>>

IdpRecover ==
  /\ ~idpUp
  /\ idpUp' = TRUE
  /\ UNCHANGED <<mwPc, mwKind, headers, reqUser, reqAccessToken, res,
                 nextCalls, verifyCalls, getUser, verified, handlerSaw>>
  /\ UNCHANGED <<oidcVars, cbVars, authVars, svcVars>>

(***************************************************************************)
(* utils/auth-service.js, calculateSecretHash                              *)
(***************************************************************************)
\* longest username explored
MaxNameLen == 2

\* strings are sequences of characters, '' is <<>>
NameChars == {"a", "b"}
Usernames == UNION {[1..n -> NameChars] : n \in 0..MaxNameLen}

\* COGNITO_CLIENT_ID and COGNITO_CLIENT_SECRET: the secret may be unset,
\* empty or set
ClientIds == {<<"b">>, <<"a", "b">>}
ClientSecrets == {Unset, Set(<<>>), Set(<<"k">>), Set(<<"j">>)}

Configs == [ClientId : ClientIds, ClientSecret : ClientSecrets]
\* line 11: !cognitoConfig.ClientSecret
NoSecret(secret) == secret = Unset \/ secret = Set(<<>>)

\* lines 16-18: the base64 digest of HMAC-SHA256, one per key and message
HmacSha256Base64(key, message) == <<"HmacSHA256", key, message>>

\* a hash computed over the client id alone
calculateSecretHashOfClientId(username, config) ==
  IF NoSecret(config.ClientSecret)
    THEN Unset
    ELSE Set(HmacSha256Base64(CHOOSE k \in config.ClientSecret : TRUE,
                              config.ClientId))

\* lines 10-19: null without a secret, else the digest of
\* username + ClientId keyed by the secret
calculateSecretHash(username, config) ==
  IF NoSecret(config.ClientSecret)
    THEN Unset
    ELSE Set(HmacSha256Base64(CHOOSE k \in config.ClientSecret : TRUE,
                              username \o config.ClientId))

\* two calls of calculateSecretHash are compared
HashCalls == {1, 2}
HashInputs == [username : Usernames, config : Configs]

HashDraw ==
  /\ hashPc = "idle"
  /\ \E ins \in [HashCalls -> HashInputs] : hashIn' = ins
  /\ hashPc' = "drawn"
  /\ UNCHANGED <<hashOut, configVars, authCall>>
  /\ UNCHANGED <<oidcVars, cbVars, mwVars, svcVars>>

HashApply ==
  /\ hashPc = "drawn"
  /\ hashOut' = [i \in HashCalls |->
                   calculateSecretHash(hashIn[i].username, hashIn[i].config)]
  /\ hashPc' = "done"
  /\ UNCHANGED <<hashIn, configVars, authCall>>
  /\ UNCHANGED <<oidcVars, cbVars, mwVars, svcVars>>

(***************************************************************************)
(* utils/auth-service.js, the adapter operations                           *)
(***************************************************************************)
Calls == {"c1", "c2"}

IdleCall == [pc |-> "idle", via |-> "none", op |-> "none", request |-> Unset,
             outcome |-> Unset, result |-> Unset, http |-> Unset]

\* arguments of the calls
AuthUsernames == {<<"a">>, <<"b">>}
Passwords == {<<"p">>}
Tokens == {<<"t">>}

\* cognito-config.js lines 33-41: the configuration comes from the
\* environment when the module is loaded
LoadConfig ==
  /\ cognitoConfig = Unset
  /\ \E config \in Configs : cognitoConfig' = Set(config)
  /\ missingVars' = {}
  /\ UNCHANGED <<hashVars, authCall>>
  /\ UNCHANGED <<oidcVars, cbVars, mwVars, svcVars>>

\* lines 6-20: the settings the module checks for; a missing one is logged
RequiredEnvVars == {"AWS_REGION", "COGNITO_USER_POOL_ID", "COGNITO_CLIENT_ID"}

\* line 35: the client id used when COGNITO_CLIENT_ID is missing
DefaultClientId == <<"d">>

\* lines 6-41: the module is loaded in an environment that may lack
\* required settings
LoadEnv ==
  /\ cognitoConfig = Unset
  /\ \E missing \in SUBSET RequiredEnvVars, id \in ClientIds,
        secret \in ClientSecrets :
       /\ missingVars' = missing
       /\ cognitoConfig' =
            Set([ClientId |-> IF "COGNITO_CLIENT_ID" \in missing
                               THEN DefaultClientId ELSE id,
                 ClientSecret |-> secret])
  /\ UNCHANGED <<hashVars, authCall>>
  /\ UNCHANGED <<oidcVars, cbVars, mwVars, svcVars>>

Config == CHOOSE config \in cognitoConfig : TRUE

\* the parameters of a request to the IdP; a field that is Unset is not
\* part of the request
Params(method, clientId, username, token) ==
  [method |-> method, ClientId |-> clientId, Username |-> username,
   Token |-> token, SecretHash |-> Unset]

\* if (secretHash): null and '' are falsy
Truthy(secretHash) == secretHash # Unset /\ secretHash # Set(<<>>)

\* the field is sent whatever calculateSecretHash returned
WithSecretHashAlways(params, secretHash) ==
  [params EXCEPT !.SecretHash =
     IF secretHash = Unset THEN Set(<<>>) ELSE secretHash]

\* lines 46-49, 81-84, 113-116, 150-153
WithSecretHash(params, secretHash) ==
  IF Truthy(secretHash)
    THEN [params EXCEPT !.SecretHash = secretHash]
    ELSE params

\* the synchronous part of an operation: it builds the request and sends it
Send(c, via, op, request) ==
  /\ cognitoConfig # Unset
  /\ authCall[c].pc = "idle"
  /\ authCall' = [authCall EXCEPT ![c] =
       [IdleCall EXCEPT !.pc = "sent", !.via = via, !.op = op,
                        !.request = Set(request)]]
  /\ UNCHANGED <<configVars, hashVars>>
  /\ UNCHANGED <<oidcVars, cbVars, mwVars, svcVars>>

\* lines 29-51
signUp(c) ==
  /\ authCall[c].pc = "idle"
  /\ \E username \in AuthUsernames :
      Send(c, "direct", "signUp",
           WithSecretHash(Params("signUp", Set(Config.ClientId), Set(username),
                                 Unset),
                          calculateSecretHash(username, Config)))

\* lines 74-86
confirmSignUp(c) ==
  /\ authCall[c].pc = "idle"
  /\ \E username \in AuthUsernames :
      Send(c, "direct", "confirmSignUp",
           WithSecretHash(Params("confirmSignUp", Set(Config.ClientId),
                                 Set(username), Unset),
                          calculateSecretHash(username, Config)))

\* lines 107-118
resendConfirmationCode(c) ==
  /\ authCall[c].pc = "idle"
  /\ \E username \in AuthUsernames :
      Send(c, "direct", "resendConfirmationCode",
           WithSecretHash(Params("resendConfirmationCode", Set(Config.ClientId),
                                 Set(username), Unset),
                          calculateSecretHash(username, Config)))

\* lines 140-155
SignInRequest(username) ==
  WithSecretHash(Params("initiateAuth", Set(Config.ClientId), Set(username),
                        Unset),
                 calculateSecretHash(username, Config))

signIn(c) ==
  /\ authCall[c].pc = "idle"
  /\ \E username \in AuthUsernames :
      Send(c, "direct", "signIn", SignInRequest(username))

\* lines 187-191
signOut(c) ==
  /\ authCall[c].pc = "idle"
  /\ \E accessToken \in Tokens :
      Send(c, "direct", "signOut",
           Params("globalSignOut", Unset, Unset, Set(accessToken)))

\* lines 212-216
getUserInfo(c) ==
  /\ authCall[c].pc = "idle"
  /\ \E accessToken \in Tokens :
      Send(c, "direct", "getUserInfo",
           Params("getUser", Unset, Unset, Set(accessToken)))

\* lines 245-253: neither a username nor a secret hash is part of the
\* request
refreshToken(c) ==
  /\ authCall[c].pc = "idle"
  /\ \E token \in Tokens :
      Send(c, "direct", "refreshToken",
           Params("initiateAuth", Set(Config.ClientId), Unset, Set(token)))

\* lines 284-288
VerifyTokenCall(c) ==
  /\ authCall[c].pc = "idle"
  /\ \E token \in Tokens :
      Send(c, "direct", "verifyToken",
           Params("getUser", Unset, Unset, Set(token)))

\* how the IdP call settles: the promise resolves with data or rejects with
\* an error.  Resolved data is "expected" when it has the fields the
\* operation reads (AuthenticationResult, UserAttributes, ...), "partial"
\* when it is an object without them and "null" when there is no object
IdpData == {"expected", "partial", "null"}

\* messages of the errors the IdP call rejects with: wrong password, unknown
\* user, unconfirmed user, network failure, and an error without a message
IdpMessages == {"Incorrect username or password.", "User does not exist.",
                "User is not confirmed.", "Inaccessible host", ""}

IdpOutcomes ==
  [resolved : {TRUE}, data : IdpData, message : {""}]
    \cup [resolved : {FALSE}, data : {"null"}, message : IdpMessages]

\* how a block of code completes: it returns a value or throws an error
Returned(envelope) ==
  [threw |-> FALSE, envelope |-> Set(envelope), message |-> ""]
Thrown(message) == [threw |-> TRUE, envelope |-> Unset, message |-> message]

\* reading a property of null or undefined
TypeErrorMessage == "Cannot read properties of undefined"

\* result.Name of the resolved data
Field(data, name) == IF data = "expected" THEN name ELSE Undefined

\* a catch block that throws the error again
CatchRethrows(completion, default) == completion

\* the catch block of every operation: { success: false,
\* error: error.message || default }
Catch(completion, default) ==
  IF completion.threw
    THEN Returned([success |-> FALSE,
                   error |-> IF completion.message # ""
                               THEN completion.message ELSE default])
    ELSE completion

\* await cognitoISP.<method>(params).promise(), then the rest of the try
\* block, which may read the data
Await(outcome, readsData, rest) ==
  IF ~outcome.resolved THEN Thrown(outcome.message)
  ELSE IF readsData /\ outcome.data = "null" THEN Thrown(TypeErrorMessage)
  ELSE rest

\* lines 51-63
signUpResult(outcome) ==
  Catch(Await(outcome, TRUE,
              Returned([success |-> TRUE,
                        userSub |-> Field(outcome.data, "UserSub"),
                        codeDeliveryDetails |->
                          Field(outcome.data, "CodeDeliveryDetails")])),
        "Sign up failed")

\* lines 86-97
confirmSignUpResult(outcome) ==
  Catch(Await(outcome, FALSE,
              Returned([success |-> TRUE,
                        message |-> "Email verified successfully"])),
        "Email verification failed")

\* lines 118-129
resendConfirmationCodeResult(outcome) ==
  Catch(Await(outcome, TRUE,
              Returned([success |-> TRUE,
                        codeDeliveryDetails |->
                          Field(outcome.data, "CodeDeliveryDetails")])),
        "Failed to resend verification code")

\* a sign-in that does not look for the authentication result
signInResultUnchecked(outcome) ==
  Catch(Await(outcome, TRUE,
              Returned([success |-> TRUE,
                        accessToken |-> Field(outcome.data, "AccessToken"),
                        idToken |-> Field(outcome.data, "IdToken"),
                        refreshToken |-> Field(outcome.data, "RefreshToken"),
                        expiresIn |-> Field(outcome.data, "ExpiresIn")])),
        "Sign in failed")

\* lines 155-177
signInResult(outcome) ==
  Catch(Await(outcome, TRUE,
              IF outcome.data = "expected"
                THEN Returned([success |-> TRUE,
                               accessToken |-> "AccessToken",
                               idToken |-> "IdToken",
                               refreshToken |-> "RefreshToken",
                               expiresIn |-> "ExpiresIn"])
                ELSE Returned([success |-> FALSE,
                               error |-> "Authentication failed"])),
        "Sign in failed")

\* lines 191-202
signOutResult(outcome) ==
  Catch(Await(outcome, FALSE,
              Returned([success |-> TRUE,
                        message |-> "Signed out successfully"])),
        "Sign out failed")

\* lines 216-233: result.UserAttributes.forEach throws when the attributes
\* are missing
getUserInfoResult(outcome) ==
  Catch(Await(outcome, TRUE,
              IF outcome.data = "expected"
                THEN Returned([success |-> TRUE, user |-> "UserAttributes"])
                ELSE Thrown(TypeErrorMessage)),
        "Failed to get user information")

\* lines 253-274
refreshTokenResult(outcome) ==
  Catch(Await(outcome, TRUE,
              IF outcome.data = "expected"
                THEN Returned([success |-> TRUE,
                               accessToken |-> "AccessToken",
                               idToken |-> "IdToken",
                               expiresIn |-> "ExpiresIn"])
                ELSE Returned([success |-> FALSE,
                               error |-> "Token refresh failed"])),
        "Token refresh failed")

\* lines 288-299, as the bearer middleware sees it
verifyTokenResult(outcome) ==
  LET result == verifyToken(IF outcome.resolved
                              THEN [kind |-> "resolved", user |-> outcome.data]
                              ELSE [kind |-> "rejected",
                                    message |-> outcome.message])
  IN IF result.threw THEN Thrown(result.error)
     ELSE IF result.success
       THEN Returned([success |-> TRUE, user |-> outcome.data])
       ELSE Returned([success |-> FALSE, error |-> result.error])

\* an adapter whose operations fail until the OIDC client is built
OperationResultNeedsClient(op, outcome) ==
  IF oidcClient = Null
    THEN Returned([success |-> FALSE, error |-> "OIDC client not initialized"])
    ELSE signInResult(outcome)

\* line 1 imports cognitoISP and cognitoConfig only: the result depends on
\* the operation and on how its IdP call settled
OperationResult(op, outcome) ==
  CASE op = "signUp" -> signUpResult(outcome)
    [] op = "confirmSignUp" -> confirmSignUpResult(outcome)
    [] op = "resendConfirmationCode" -> resendConfirmationCodeResult(outcome)
    [] op = "signIn" -> signInResult(outcome)
    [] op = "signOut" -> signOutResult(outcome)
    [] op = "getUserInfo" -> getUserInfoResult(outcome)
    [] op = "refreshToken" -> refreshTokenResult(outcome)
    [] op = "verifyToken" -> verifyTokenResult(outcome)

\* the IdP call settles and the operation runs to its end
Settle(c, outcome) ==
  /\ authCall[c].pc = "sent"
  /\ authCall' = [authCall EXCEPT ![c] =
       [@ EXCEPT !.pc = "returned", !.outcome = Set(outcome),
                 !.result = Set(OperationResult(authCall[c].op, outcome))]]
  /\ UNCHANGED <<configVars, hashVars>>
  /\ UNCHANGED <<oidcVars, cbVars, mwVars, svcVars>>

IdpResolve(c) ==
  \E outcome \in IdpOutcomes : outcome.resolved /\ Settle(c, outcome)

IdpReject(c) ==
  \E outcome \in IdpOutcomes : ~outcome.resolved /\ Settle(c, outcome)

(***************************************************************************)
(* POST /auth/signin                                                       *)
(***************************************************************************)
Respond(c, status, body) ==
  /\ authCall' = [authCall EXCEPT ![c] =
       [@ EXCEPT !.pc = "responded", !.via = "signin",
                 !.http = Set([status |-> status, body |-> body])]]
  /\ UNCHANGED <<configVars, hashVars>>
  /\ UNCHANGED <<oidcVars, cbVars, mwVars, svcVars>>

\* lines 163-173: the body is validated, then signIn is called
SigninRoute(c) ==
  \E username \in AuthUsernames \cup {<<>>}, password \in Passwords \cup {<<>>} :
    IF username = <<>> \/ password = <<>>
      THEN /\ cognitoConfig # Unset
           /\ authCall[c].pc = "idle"
           /\ Respond(c, 400,
                      [success |-> FALSE,
                       error |-> "Username and password are required"])
      ELSE Send(c, "signin", "signIn", SignInRequest(username))

\* lines 175-196
SigninRespond(c) ==
  /\ authCall[c].pc = "returned"
  /\ authCall[c].via = "signin"
  /\ LET completion == CHOOSE r \in authCall[c].result : TRUE
         result == CHOOSE e \in completion.envelope : TRUE
     IN IF completion.threw
          THEN Respond(c, 500, [success |-> FALSE,
                                error |-> "Internal server error"])
        ELSE IF result.success
          THEN Respond(c, 200, [success |-> TRUE,
                                message |-> "Sign in successful",
                                accessToken |-> result.accessToken,
                                idToken |-> result.idToken,
                                refreshToken |-> result.refreshToken,
                                expiresIn |-> result.expiresIn])
          ELSE Respond(c, 401, [success |-> FALSE, error |-> result.error])

(***************************************************************************)
(* routes/courses.js, POST /api/courses                                    *)
(***************************************************************************)
PostReqs == {"p1", "p2"}
DeleteReqs == {"d1"}
CourseReqs == PostReqs \cup DeleteReqs

\* course codes of valid request bodies
CourseCodes == {"x", "y"}

\* req.body: valid, or rejected by the validation of lines 37-67
PostBodies == [valid : {TRUE}, code : CourseCodes]
                \cup [valid : {FALSE}, code : {""}]

NoRow == [id |-> 0, code |-> ""]

\* a request: where it is, the body, the row its transaction has inserted
\* and not yet committed, the error caught, the response, the result of
\* sendMessage, and what happened to its database client
IdleReq ==
  [pc |-> "idle", body |-> [valid |-> FALSE, code |-> ""], id |-> 0,
   nextId |-> 0, row |-> NoRow, inserted |-> FALSE, committed |-> FALSE,
   err |-> "none", res |-> Unset, sqs |-> Unset, dup |-> FALSE,
   faulted |-> FALSE, threw |-> FALSE,
   acquired |-> 0, released |-> 0, late |-> FALSE]

\* rows other transactions have inserted and not yet committed
Uncommitted(p) ==
  {courseReq[q].row : q \in {q \in PostReqs \ {p} : courseReq[q].inserted}}

\* client.query(...) is issued on the client of the request
Query(r) == [r EXCEPT !.late = @ \/ r.released > 0]

\* res.status(status).json(body)
Json(r, status, body) == [r EXCEPT !.res = Set([status |-> status] @@ body)]

Update(p, r) == courseReq' = [courseReq EXCEPT ![p] = r]

\* finally { client.release() } of a handler that caught nothing
FinallySkipsReleaseOnThrow(r) ==
  IF r.threw THEN [r EXCEPT !.pc = "done"]
  ELSE [r EXCEPT !.pc = "done", !.released = @ + 1]

\* lines 168-170, 293-295: finally { client.release() }
Finally(r) == [r EXCEPT !.pc = "done", !.released = @ + 1]

\* frame of a step that touches only the request
OnlyRequest ==
  /\ UNCHANGED <<courses, sqsQueue>>
  /\ UNCHANGED <<oidcVars, cbVars, mwVars, authVars, imdsVars, waitVars>>

\* line 31: the handler is called and awaits pool.connect()
PostRequest(p) ==
  /\ courseReq[p].pc = "idle"
  /\ \E body \in PostBodies :
       Update(p, [courseReq[p] EXCEPT !.pc = "connect", !.body = body])
  /\ OnlyRequest

\* lines 32, 235: pool.connect() rejects; the handler throws before its try
ConnectFail(p) ==
  /\ courseReq[p].pc = "connect"
  /\ Update(p, [courseReq[p] EXCEPT !.pc = "done", !.threw = TRUE,
                                    !.faulted = TRUE])
  /\ OnlyRequest

\* lines 32-70: the client is there; validation, then BEGIN
PostConnected(p) ==
  /\ courseReq[p].pc = "connect"
  /\ LET r == [courseReq[p] EXCEPT !.acquired = 1]
     IN IF ~r.body.valid
          THEN Update(p, Finally(Json(r, 400, [success |-> FALSE,
                                               error |-> "validation"])))
          ELSE Update(p, [Query(r) EXCEPT !.pc = "begin"])
  /\ OnlyRequest

\* lines 70-74: BEGIN is done; SELECT id FROM courses WHERE code = $1
PostBegun(p) ==
  /\ courseReq[p].pc = "begin"
  /\ Update(p, [Query(courseReq[p]) EXCEPT !.pc = "check"])
  /\ OnlyRequest

\* SELECT COALESCE(MAX(id), 0) + 1 over the committed rows
MaxIdPlusOne ==
  IF courses = {} THEN 1
  ELSE (CHOOSE i \in {row.id : row \in courses} :
          \A row \in courses : row.id <= i) + 1

\* lines 74-87: the check, which sees committed rows, is answered; ROLLBACK
\* for a duplicate, else the MAX(id) query
PostChecked(p) ==
  /\ courseReq[p].pc = "check"
  /\ LET found == \E row \in courses : row.code = courseReq[p].body.code
     IN Update(p, [Query(courseReq[p]) EXCEPT
                     !.pc = IF found THEN "duplicate" ELSE "maxid",
                     !.dup = found])
  /\ OnlyRequest

\* lines 77-82: ROLLBACK is done; 409
PostDuplicate(p) ==
  /\ courseReq[p].pc = "duplicate"
  /\ Update(p, Finally(Json(courseReq[p], 409,
       [success |-> FALSE,
        error |-> "A course with this code already exists"])))
  /\ OnlyRequest

\* lines 87-100: MAX(id) + 1 is answered; INSERT
PostMaxId(p) ==
  /\ courseReq[p].pc = "maxid"
  /\ Update(p, [Query(courseReq[p]) EXCEPT !.pc = "insert",
                                           !.nextId = MaxIdPlusOne])
  /\ OnlyRequest

\* catch (error): lines 149-151 issue ROLLBACK
Caught(r, code) == [Query(r) EXCEPT !.pc = "catch", !.err = code]

\* lines 100-103: INSERT with id a unique key is answered.  It waits while
\* another transaction holds an uncommitted row with the same id and fails
\* with code 23505 when a committed row has it; else COMMIT is issued
PostInserted(p) ==
  /\ courseReq[p].pc = "insert"
  /\ \A row \in Uncommitted(p) : row.id # courseReq[p].nextId
  /\ IF \E row \in courses : row.id = courseReq[p].nextId
       THEN Update(p, Caught(courseReq[p], "23505"))
       ELSE Update(p, [Query(courseReq[p]) EXCEPT
                         !.pc = "commit", !.inserted = TRUE,
                         !.row = [id |-> courseReq[p].nextId,
                                  code |-> courseReq[p].body.code]])
  /\ OnlyRequest

\* lines 103-131: COMMIT is done; sendMessage is called
PostCommitted(p) ==
  /\ courseReq[p].pc = "commit"
  /\ courses' = courses \cup {courseReq[p].row}
  /\ Update(p, [courseReq[p] EXCEPT !.pc = "publish", !.inserted = FALSE,
                                    !.committed = TRUE])
  /\ UNCHANGED sqsQueue
  /\ UNCHANGED <<oidcVars, cbVars, mwVars, authVars, imdsVars, waitVars>>

\* sqs-service.js lines 19-78: sendMessage catches everything; the queue
\* URL may be missing, and sqs.sendMessage may resolve or reject
SqsOutcomes == {"sent", "rejected", "not configured"}

sendMessage(outcome) ==
  IF outcome = "sent"
    THEN [success |-> TRUE, messageId |-> "MessageId", error |-> Undefined]
    ELSE [success |-> FALSE, messageId |-> Undefined,
          error |-> IF outcome = "rejected"
                      THEN "Failed to send message to SQS"
                      ELSE "SQS Queue URL is not configured"]

\* the queue accepts the message when sqs.sendMessage resolves
Enqueue(outcome, message) ==
  sqsQueue' = IF outcome = "sent" THEN Append(sqsQueue, message) ELSE sqsQueue

\* a handler that fails the request when the message was not sent
CreatedIfSent(r, sqsResult) ==
  IF sqsResult.success
    THEN Json(r, 201, [success |-> TRUE, sent |-> TRUE])
    ELSE Json(r, 500, [success |-> FALSE, error |-> "Failed to create course"])

\* lines 133-147: the 201 response reports the result of sendMessage
Created(r, sqsResult) ==
  Json(r, 201, [success |-> TRUE, sent |-> sqsResult.success])

\* lines 129-147: sendMessage returned; 201
PostPublished(p) ==
  /\ courseReq[p].pc = "publish"
  /\ \E outcome \in SqsOutcomes :
       /\ Enqueue(outcome, [eventType |-> "COURSE_CREATED", by |-> p,
                            course |-> courseReq[p].row])
       /\ Update(p, Finally(Created([courseReq[p] EXCEPT
                                       !.sqs = Set(sendMessage(outcome))],
                                    sendMessage(outcome))))
  /\ UNCHANGED courses
  /\ UNCHANGED <<oidcVars, cbVars, mwVars, authVars, imdsVars, waitVars>>

\* a query of a try block fails: the database or the connection is gone
QueryFails(p) ==
  /\ courseReq[p].pc \in {"begin", "check", "duplicate", "maxid", "insert",
                          "commit", "notfound", "delete"}
  /\ Update(p, [Caught(courseReq[p], "other") EXCEPT !.faulted = TRUE])
  /\ OnlyRequest

\* lines 149-167: the ROLLBACK of the catch is done; 409 for a unique
\* violation, else 500
PostCaught(p) ==
  /\ courseReq[p].pc = "catch"
  /\ LET r == [courseReq[p] EXCEPT !.inserted = FALSE]
     IN IF r.err = "23505"
          THEN Update(p, Finally(Json(r, 409,
                 [success |-> FALSE,
                  error |-> "A course with this code already exists"])))
          ELSE Update(p, Finally(Json(r, 500,
                 [success |-> FALSE, error |-> "Failed to create course"])))
  /\ OnlyRequest

\* lines 151, 286: the ROLLBACK of the catch fails; the handler throws, after
\* its finally
RollbackFails(p) ==
  /\ courseReq[p].pc = "catch"
  /\ Update(p, Finally([courseReq[p] EXCEPT !.inserted = FALSE,
                                            !.threw = TRUE,
                                            !.faulted = TRUE]))
  /\ OnlyRequest

(***************************************************************************)
(* routes/courses.js, DELETE /api/courses/:id                              *)
(***************************************************************************)
\* req.params.id
CourseIds == {1, 2}

\* line 234: the handler is called and awaits pool.connect()
DeleteRequest(d) ==
  /\ courseReq[d].pc = "idle"
  /\ \E id \in CourseIds :
       Update(d, [courseReq[d] EXCEPT !.pc = "connect", !.id = id])
  /\ OnlyRequest

\* lines 235-240: the client is there; BEGIN
DeleteConnected(d) ==
  /\ courseReq[d].pc = "connect"
  /\ Update(d, [Query(courseReq[d]) EXCEPT !.pc = "begin", !.acquired = 1])
  /\ OnlyRequest

\* lines 240-244: BEGIN is done; SELECT ... WHERE id = $1
DeleteBegun(d) ==
  /\ courseReq[d].pc = "begin"
  /\ Update(d, [Query(courseReq[d]) EXCEPT !.pc = "check"])
  /\ OnlyRequest

\* lines 244-258: the check is answered; ROLLBACK when there is no such
\* course, else DELETE
DeleteChecked(d) ==
  /\ courseReq[d].pc = "check"
  /\ LET rows == {row \in courses : row.id = courseReq[d].id}
     IN IF rows = {}
          THEN Update(d, [Query(courseReq[d]) EXCEPT !.pc = "notfound"])
          ELSE Update(d, [Query(courseReq[d]) EXCEPT
                            !.pc = "delete",
                            !.row = CHOOSE row \in rows : TRUE])
  /\ OnlyRequest

\* lines 246-252: ROLLBACK is done; 404
DeleteNotFound(d) ==
  /\ courseReq[d].pc = "notfound"
  /\ Update(d, Finally(Json(courseReq[d], 404,
       [success |-> FALSE, error |-> "Course not found"])))
  /\ OnlyRequest

\* lines 258-260: DELETE is done; COMMIT
DeleteDeleted(d) ==
  /\ courseReq[d].pc = "delete"
  /\ Update(d, [Query(courseReq[d]) EXCEPT !.pc = "commit"])
  /\ OnlyRequest

\* lines 260-279: COMMIT is done; sendMessage is called
DeleteCommitted(d) ==
  /\ courseReq[d].pc = "commit"
  /\ courses' = {row \in courses : row.id # courseReq[d].id}
  /\ Update(d, [courseReq[d] EXCEPT !.pc = "publish", !.committed = TRUE])
  /\ UNCHANGED sqsQueue
  /\ UNCHANGED <<oidcVars, cbVars, mwVars, authVars, imdsVars, waitVars>>

\* lines 279-284: sendMessage returned, its result is not looked at; 200
DeletePublished(d) ==
  /\ courseReq[d].pc = "publish"
  /\ \E outcome \in SqsOutcomes :
       /\ Enqueue(outcome, [eventType |-> "COURSE_DELETED", by |-> d,
                            course |-> courseReq[d].row])
       /\ Update(d, Finally(Json([courseReq[d] EXCEPT
                                    !.sqs = Set(sendMessage(outcome))],
                                 200, [success |-> TRUE])))
  /\ UNCHANGED courses
  /\ UNCHANGED <<oidcVars, cbVars, mwVars, authVars, imdsVars, waitVars>>

\* lines 285-292: the ROLLBACK of the catch is done; 500
DeleteCaught(d) ==
  /\ courseReq[d].pc = "catch"
  /\ Update(d, Finally(Json(courseReq[d], 500,
       [success |-> FALSE, error |-> "Failed to delete course"])))
  /\ OnlyRequest

(***************************************************************************)
(* utils/instance-metadata-service.js                                      *)
(***************************************************************************)
\* minutes of Date.now() explored
MaxClock == 3

\* line 44: 10 * 60 * 1000 ms, in minutes
ImdsTtl == 10

\* line 57: 60 * 1000 ms, in minutes
FallbackTtl == 1

ImdsCalls == {"i1", "i2"}

IdleImdsCall ==
  [pc |-> "idle", now |-> 0, timer |-> "none", requests |-> 0,
   ret |-> Unset, threw |-> FALSE]

\* line 43 and lines 47-55: the record built from the metadata, and the one
\* built from the environment
ImdsRecord(at) == [source |-> "imds-v2", error |-> Undefined, fetchedAt |-> at]
FallbackRecord(err, at) ==
  [source |-> "env-fallback", error |-> err, fetchedAt |-> at]

\* why the requests of lines 34-39 fail: a status that is not OK or a
\* network error, and the abort of the timeout
FetchErrors == {"fetch failed", "IMDS timeout"}

\* time passes
Tick ==
  /\ clock < MaxClock
  /\ clock' = clock + 1
  /\ UNCHANGED <<cache, cacheUntil, imdsCall>>
  /\ UNCHANGED <<oidcVars, cbVars, mwVars, authVars, courseVars,
               waitVars>>

\* lines 27-34: the cached record is returned while now < cacheUntil; else
\* the timer is armed and the token is requested
fetchInstanceIdentity(c) ==
  /\ imdsCall[c].pc = "idle"
  /\ IF cache # Unset /\ clock < cacheUntil
       THEN imdsCall' = [imdsCall EXCEPT ![c] =
              [@ EXCEPT !.pc = "done", !.now = clock, !.ret = cache]]
       ELSE imdsCall' = [imdsCall EXCEPT ![c] =
              [@ EXCEPT !.pc = "fetching", !.now = clock, !.timer = "armed",
                        !.requests = 1]]
  /\ UNCHANGED <<clock, cache, cacheUntil>>
  /\ UNCHANGED <<oidcVars, cbVars, mwVars, authVars, courseVars,
               waitVars>>

\* a fallback that is kept as long as a metadata record
FallbackUntilLong(now) == now + ImdsTtl

\* line 57: cacheUntil = now + 60 * 1000
FallbackUntil(now) == now + FallbackTtl

\* lines 34-45 and 59-61: the token and the three values arrived
FetchResolve(c) ==
  /\ imdsCall[c].pc = "fetching"
  /\ cache' = Set(ImdsRecord(clock))
  /\ cacheUntil' = imdsCall[c].now + ImdsTtl
  /\ imdsCall' = [imdsCall EXCEPT ![c] =
       [@ EXCEPT !.pc = "done", !.timer = "cleared",
                 !.ret = Set(ImdsRecord(clock))]]
  /\ UNCHANGED clock
  /\ UNCHANGED <<oidcVars, cbVars, mwVars, authVars, courseVars,
               waitVars>>

\* lines 46-61: a request failed or was aborted
FetchReject(c) ==
  /\ imdsCall[c].pc = "fetching"
  /\ \E err \in FetchErrors :
       /\ cache' = Set(FallbackRecord(err, clock))
       /\ imdsCall' = [imdsCall EXCEPT ![c] =
            [@ EXCEPT !.pc = "done", !.timer = "cleared",
                      !.ret = Set(FallbackRecord(err, clock))]]
  /\ cacheUntil' = FallbackUntil(imdsCall[c].now)
  /\ UNCHANGED clock
  /\ UNCHANGED <<oidcVars, cbVars, mwVars, authVars, courseVars,
               waitVars>>

\* part_006 lines 60-66: /whoami has answered; the next request may come
WhoamiAnswered(c) ==
  /\ imdsCall[c].pc = "done"
  /\ imdsCall' = [imdsCall EXCEPT ![c] = IdleImdsCall]
  /\ UNCHANGED <<clock, cache, cacheUntil>>
  /\ UNCHANGED <<oidcVars, cbVars, mwVars, authVars, courseVars,
               waitVars>>

(***************************************************************************)
(* Specifications                                                          *)
(***************************************************************************)
InitOidc ==
  /\ oidcClient = Null
  /\ oidcClientReady = FALSE
  /\ pc = [t \in Tasks |-> "idle"]
  /\ fn = [t \in ApiCallers |-> "none"]
  /\ ret = [t \in Tasks |-> Null]
  /\ discoverCalls = 0
  /\ settled = 0
  /\ built = 0

InitCb ==
  /\ session = [nonce |-> Undefined, state |-> Undefined,
                userInfo |-> Unset, tokens |-> Unset]
  /\ cbParams = [r \in CbReqs |-> [state |-> Undefined, code |-> "none"]]
  /\ cbChecks = [r \in CbReqs |-> NoChecks]
  /\ cbStored = [r \in CbReqs |-> NotRead]
  /\ cbTokenSet = [r \in CbReqs |-> NoTokenSet]
  /\ cbErr = [r \in CbReqs |-> Undefined]
  /\ redirect = [r \in CbReqs |-> Undefined]
  /\ exchanges = [r \in CbReqs |-> 0]
  /\ writes = [r \in CbReqs |-> [userInfo |-> 0, tokens |-> 0]]

InitMw ==
  /\ idpUp = TRUE
  /\ mwPc = [m \in MwReqs |-> "idle"]
  /\ mwKind = [m \in MwReqs |-> "none"]
  /\ headers = [m \in MwReqs |-> Unset]
  /\ reqUser = [m \in MwReqs |-> Unset]
  /\ reqAccessToken = [m \in MwReqs |-> Unset]
  /\ res = [m \in MwReqs |-> NoResponse]
  /\ nextCalls = [m \in MwReqs |-> 0]
  /\ verifyCalls = [m \in MwReqs |-> 0]
  /\ getUser = [m \in MwReqs |-> "none"]
  /\ verified = [m \in MwReqs |-> "none"]
  /\ handlerSaw = [m \in MwReqs |-> [user |-> Unset, accessToken |-> Unset]]

InitAuth ==
  /\ cognitoConfig = Unset
  /\ missingVars = {}
  /\ hashPc = "idle"
  /\ hashIn = <<>>
  /\ hashOut = <<>>
  /\ authCall = [c \in Calls |-> IdleCall]

InitCourses ==
  /\ courses = {}
  /\ courseReq = [q \in CourseReqs |-> IdleReq]
  /\ sqsQueue = <<>>

InitImds ==
  /\ clock = 0
  /\ cache = Unset
  /\ cacheUntil = 0
  /\ imdsCall = [c \in ImdsCalls |-> IdleImdsCall]

(***************************************************************************)
(* dynamodb-service.js: getFileMetadata and waitForFileMetadata            *)
(***************************************************************************)
\* the longest maxWaitTime and pollInterval passed, and the longest time a
\* lookup takes, in milliseconds
MaxWaitTime == 3
MaxPollInterval == 2
MaxLookupTime == 1

\* the time that passes between two statements at most
MaxLateness == 1

\* the arguments: zero and negative values included
WaitTimes == -1 .. MaxWaitTime
PollIntervals == -1 .. MaxPollInterval

\* how dynamodb.query(...).promise() and dynamodb.scan(...).promise() settle:
\* with Items, or with an error and its message
DbOutcomes ==
  [threw : {FALSE}, Items : {<<>>, <<"m1">>, <<"m2", "m1">>}, message : {""}]
    \cup [threw : {TRUE}, Items : {<<>>}, message : {"", "ResourceNotFound"}]

\* return { success: true, metadata: Items[0], allItems: Items }
FoundResult(items) ==
  [success |-> TRUE, metadata |-> Set(items[1]), allItems |-> items,
   error |-> Undefined]

\* return { success: false, metadata: null, error }
FailedResult(error) ==
  [success |-> FALSE, metadata |-> Unset, allItems |-> <<>>, error |-> error]

\* getFileMetadata: the query by mediaId, whose error is swallowed, then
\* the scan, whose error the outer catch turns into a failure result
getFileMetadata(query, scan) ==
  IF ~query.threw /\ Len(query.Items) > 0 THEN FoundResult(query.Items)
  ELSE IF scan.threw
         THEN FailedResult(IF scan.message # "" THEN scan.message
                           ELSE "Failed to get file metadata")
  ELSE IF Len(scan.Items) > 0 THEN FoundResult(scan.Items)
  ELSE FailedResult("No metadata found for this file")

\* the result after the loop
TimeoutResult == FailedResult("Timeout waiting for file metadata")

\* the call: where it is, its arguments, startTime, the results of its
\* lookups in order, and what it returned
IdleWait ==
  [pc |-> "idle", maxWaitTime |-> 0, pollInterval |-> 0, startTime |-> 0,
   polls |-> <<>>, ret |-> Unset]

\* a loop test that lets the last millisecond in
LoopTestInclusive(now, startTime, maxWaitTime) ==
  now - startTime <= maxWaitTime

\* while (Date.now() - startTime < maxWaitTime)
LoopTest(now, startTime, maxWaitTime) == now - startTime < maxWaitTime

\* setTimeout(resolve, pollInterval): the timer fires after pollInterval
\* milliseconds, after 1 when the delay is less than 1
TimerDelay(pollInterval) == IF pollInterval < 1 THEN 1 ELSE pollInterval

\* waitForFileMetadata(s3Key, maxWaitTime, pollInterval) is called and reads
\* startTime
waitForFileMetadata ==
  /\ waitCall.pc = "idle"
  /\ \E maxWaitTime \in WaitTimes, pollInterval \in PollIntervals,
        late \in 0 .. MaxLateness :
       /\ wallClock' = wallClock + late
       /\ waitCall' = [waitCall EXCEPT !.pc = "test",
                                       !.maxWaitTime = maxWaitTime,
                                       !.pollInterval = pollInterval,
                                       !.startTime = wallClock']
  /\ UNCHANGED <<oidcVars, cbVars, mwVars, authVars, courseVars, imdsVars>>

\* the loop test holds: getFileMetadata(s3Key) is called
WhileEnter ==
  /\ waitCall.pc = "test"
  /\ \E late \in 0 .. MaxLateness :
       /\ wallClock' = wallClock + late
       /\ LoopTest(wallClock', waitCall.startTime, waitCall.maxWaitTime)
  /\ waitCall' = [waitCall EXCEPT !.pc = "lookup"]
  /\ UNCHANGED <<oidcVars, cbVars, mwVars, authVars, courseVars, imdsVars>>

\* the loop test fails: the timeout result is returned
WhileExit ==
  /\ waitCall.pc = "test"
  /\ \E late \in 0 .. MaxLateness :
       /\ wallClock' = wallClock + late
       /\ ~LoopTest(wallClock', waitCall.startTime, waitCall.maxWaitTime)
  /\ waitCall' = [waitCall EXCEPT !.pc = "returned",
                                  !.ret = Set(TimeoutResult)]
  /\ UNCHANGED <<oidcVars, cbVars, mwVars, authVars, courseVars, imdsVars>>

\* await getFileMetadata(s3Key) returns: a result with metadata is returned,
\* any other starts the timer
LookupReturns ==
  /\ waitCall.pc = "lookup"
  /\ \E query \in DbOutcomes, scan \in DbOutcomes, took \in 0 .. MaxLookupTime :
       LET result == getFileMetadata(query, scan) IN
         /\ wallClock' = wallClock + took
         /\ waitCall' =
              IF result.success /\ result.metadata # Unset
                THEN [waitCall EXCEPT !.pc = "returned",
                                      !.polls = Append(@, result),
                                      !.ret = Set(result)]
                ELSE [waitCall EXCEPT !.pc = "sleep",
                                      !.polls = Append(@, result)]
  /\ UNCHANGED <<oidcVars, cbVars, mwVars, authVars, courseVars, imdsVars>>

\* the timer fires and the loop test is next
TimerFires ==
  /\ waitCall.pc = "sleep"
  /\ wallClock' = wallClock + TimerDelay(waitCall.pollInterval)
  /\ waitCall' = [waitCall EXCEPT !.pc = "test"]
  /\ UNCHANGED <<oidcVars, cbVars, mwVars, authVars, courseVars, imdsVars>>

InitWait ==
  /\ wallClock = 0
  /\ waitCall = IdleWait

Init ==
  /\ InitOidc /\ InitCb /\ InitMw /\ InitAuth /\ InitCourses /\ InitImds
  /\ InitWait

\* the exported API of cognito-config.js under any callers
NextOidc ==
  \/ StartupInitialize
  \/ StartupThen
  \/ StartupCatch
  \/ \E t \in ApiCallers : initializeOIDCClient(t)
  \/ \E t \in ApiCallers : getOIDCClient(t)
  \/ \E t \in Tasks : DiscoverResolve(t)
  \/ \E t \in Tasks : DiscoverReject(t)
  \/ \E t \in ApiCallers : CallAgain(t)

SpecOidc == Init /\ [][NextOidc]_vars

\* the application: module load and /callback requests
NextApp ==
  \/ StartupInitialize
  \/ StartupThen
  \/ StartupCatch
  \/ \E t \in Tasks : DiscoverResolve(t)
  \/ \E t \in Tasks : DiscoverReject(t)
  \/ AuthorizeRedirect
  \/ \E r \in CbReqs : CallbackRequest(r)
  \/ \E r \in CbReqs : CallbackExchange(r)
  \/ \E r \in CbReqs : ExchangeResolve(r)
  \/ \E r \in CbReqs : ExchangeReject(r)
  \/ \E r \in CbReqs : UserinfoResolve(r)
  \/ \E r \in CbReqs : UserinfoReject(r)
  \/ \E r \in CbReqs : CallbackCatch(r)

SpecApp == Init /\ [][NextApp]_vars

\* requests through the bearer middlewares
NextMw ==
  \/ \E m \in MwReqs : authenticateToken(m)
  \/ \E m \in MwReqs : optionalAuth(m)
  \/ \E m \in MwReqs : GetUserResolve(m)
  \/ \E m \in MwReqs : GetUserNotAuthorized(m)
  \/ \E m \in MwReqs : GetUserNetworkError(m)
  \/ IdpOutage
  \/ IdpRecover

SpecMw == Init /\ [][NextMw]_vars

\* every getUser call settles: the SDK bounds its requests with a timeout
GetUserSettles(m) ==
  GetUserResolve(m) \/ GetUserNotAuthorized(m) \/ GetUserNetworkError(m)

FairSpecMw == SpecMw /\ \A m \in MwReqs : WF_vars(GetUserSettles(m))

\* calculateSecretHash on its own
NextHash == HashDraw \/ HashApply

SpecHash == Init /\ [][NextHash]_vars

\* the adapter under any callers, and POST /auth/signin
NextAuth ==
  \/ LoadConfig
  \/ \E c \in Calls :
       \/ signUp(c)
       \/ confirmSignUp(c)
       \/ resendConfirmationCode(c)
       \/ signIn(c)
       \/ signOut(c)
       \/ getUserInfo(c)
       \/ refreshToken(c)
       \/ VerifyTokenCall(c)
       \/ IdpResolve(c)
       \/ IdpReject(c)
       \/ SigninRoute(c)
       \/ SigninRespond(c)

SpecAuth == Init /\ [][NextAuth]_vars

\* one adapter call in an environment that may lack required settings
NextEnv ==
  \/ LoadEnv
  \/ signUp("c1")
  \/ confirmSignUp("c1")
  \/ resendConfirmationCode("c1")
  \/ signIn("c1")
  \/ signOut("c1")
  \/ getUserInfo("c1")
  \/ refreshToken("c1")
  \/ VerifyTokenCall("c1")
  \/ IdpResolve("c1")
  \/ IdpReject("c1")

SpecEnv == Init /\ [][NextEnv]_vars

\* the password-flow operations while the startup discovery runs
NextIso ==
  \/ StartupInitialize
  \/ DiscoverResolve(Startup)
  \/ DiscoverReject(Startup)
  \/ StartupThen
  \/ StartupCatch
  \/ LoadConfig
  \/ \E c \in Calls :
       \/ signUp(c)
       \/ confirmSignUp(c)
       \/ signIn(c)
       \/ refreshToken(c)
       \/ VerifyTokenCall(c)
       \/ IdpResolve(c)
       \/ IdpReject(c)

SpecIso == Init /\ [][NextIso]_vars

\* concurrent POST /api/courses requests
NextCourses ==
  \E p \in PostReqs :
    \/ PostRequest(p)
    \/ ConnectFail(p)
    \/ PostConnected(p)
    \/ PostBegun(p)
    \/ PostChecked(p)
    \/ PostDuplicate(p)
    \/ PostMaxId(p)
    \/ PostInserted(p)
    \/ PostCommitted(p)
    \/ PostPublished(p)
    \/ QueryFails(p)
    \/ PostCaught(p)
    \/ RollbackFails(p)

SpecCourses == Init /\ [][NextCourses]_vars

\* POST and DELETE requests and their database clients
NextClients ==
  \/ NextCourses
  \/ DeleteRequest("d1")
  \/ DeleteConnected("d1")
  \/ DeleteBegun("d1")
  \/ DeleteChecked("d1")
  \/ DeleteNotFound("d1")
  \/ DeleteDeleted("d1")
  \/ DeleteCommitted("d1")
  \/ DeletePublished("d1")
  \/ DeleteCaught("d1")
  \/ ConnectFail("d1")
  \/ QueryFails("d1")
  \/ RollbackFails("d1")

SpecClients == Init /\ [][NextClients]_vars

\* concurrent fetchInstanceIdentity calls as time passes
NextImds ==
  \/ Tick
  \/ \E c \in ImdsCalls :
       \/ fetchInstanceIdentity(c)
       \/ FetchResolve(c)
       \/ FetchReject(c)
       \/ WhoamiAnswered(c)

SpecImds == Init /\ [][NextImds]_vars

\* one waitForFileMetadata call
NextWait ==
  \/ waitForFileMetadata
  \/ WhileEnter
  \/ WhileExit
  \/ LookupReturns
  \/ TimerFires

SpecWait == Init /\ [][NextWait]_vars

\* every lookup returns, every timer fires, and the call goes on
FairSpecWait ==
  /\ SpecWait
  /\ WF_vars(WhileEnter \/ WhileExit)
  /\ WF_vars(LookupReturns)
  /\ WF_vars(TimerFires)

(***************************************************************************)
(* Properties of the OIDC client singleton                                 *)
(***************************************************************************)
\* C1: callers that all start before the first discovery has completed
\* cause exactly one Issuer.discover call: while no discovery has settled,
\* at most one has been issued.
C1_OneDiscoveryInFlight == settled = 0 => discoverCalls <= 1

\* C2: once oidcClient is non-null its value never changes again, so no
\* later completion overwrites it.
C2_ClientNeverChanges ==
  [][oidcClient # Null => oidcClient' = oidcClient]_vars

\* C3: a failed discovery is not sticky: when an attempt rejects the
\* singleton holds no client, a call that finds no client starts a fresh
\* discovery, and an attempt that succeeds leaves the singleton Ready.
C3_FailureNotSticky ==
  [][\A t \in {Startup} \cup ApiCallers :
       /\ (pc[t] = "discovering" /\ pc'[t] = "rejected")
            => oidcClient' = Null
       /\ (pc[t] = "idle" /\ pc'[t] # "idle" /\ oidcClient = Null)
            => (pc'[t] = "discovering" /\ discoverCalls' = discoverCalls + 1)
       /\ (pc[t] = "discovering" /\ pc'[t] = "returned")
            => oidcClient' # Null]_vars

(***************************************************************************)
(* Properties of the bearer middlewares                                    *)
(***************************************************************************)
\* an Authorization header carries a token when a non-empty word follows
\* its first space
HasToken(authHeader) ==
  /\ authHeader # Unset
  /\ \E str \in authHeader : \E i \in 1..(Len(str) - 1) :
       /\ str[i] = " "
       /\ \A j \in 1..(i - 1) : str[j] # " "
       /\ str[i + 1] # " "

Strict(m) == mwKind[m] = "strict"
Permissive(m) == mwKind[m] = "permissive"
NothingAttached(m) == reqUser[m] = Unset /\ reqAccessToken[m] = Unset

\* C4: a request without bearer token through authenticateToken is answered
\* 401; next() and verifyToken are never called and neither req.user nor
\* req.accessToken is set.
C4_StrictMissingToken ==
  \A m \in MwReqs :
    (Strict(m) /\ ~HasToken(headers[m])) =>
      /\ mwPc[m] = "done"
      /\ res[m].status = 401
      /\ nextCalls[m] = 0
      /\ verifyCalls[m] = 0
      /\ NothingAttached(m)

C4_Witness ==
  \E m \in MwReqs :
    /\ Strict(m) /\ mwPc[m] = "done"
    /\ headers[m] = Set(<<"b", " ">>)
    /\ res[m].status = 401

\* C5: a request through authenticateToken whose token the IdP refuses
\* (invalid or expired) is answered 403; next() is never called and neither
\* req.user nor req.accessToken is set.
C5_StrictInvalidToken ==
  \A m \in MwReqs :
    (Strict(m) /\ HasToken(headers[m])) =>
      /\ getUser[m] = "NotAuthorizedException" =>
           (mwPc[m] = "done" /\ verified[m] = "failure" /\ res[m].status = 403)
      /\ getUser[m] # "resolved" => (nextCalls[m] = 0 /\ NothingAttached(m))

C5_Witness ==
  \E m \in MwReqs :
    /\ Strict(m) /\ mwPc[m] = "done"
    /\ getUser[m] = "NotAuthorizedException"
    /\ res[m].status = 403

\* C6: a request through authenticateToken whose token is verified has the
\* identity and the raw token attached before the handler runs, next() is
\* called exactly once and the middleware sends no response.
C6_StrictValidToken ==
  \A m \in MwReqs :
    (Strict(m) /\ verified[m] = "success") =>
      /\ mwPc[m] = "done"
      /\ \E tok \in ValidTokens :
           /\ ExtractToken(headers[m]) = Set(tok)
           /\ reqUser[m] = Set(UserOf(tok))
           /\ reqAccessToken[m] = Set(tok)
           /\ handlerSaw[m] = [user |-> Set(UserOf(tok)),
                               accessToken |-> Set(tok)]
      /\ nextCalls[m] = 1
      /\ res[m] = NoResponse

C6_Witness ==
  \E m \in MwReqs :
    /\ Strict(m) /\ verified[m] = "success"
    /\ headers[m] = Set(<<" ", "t">>)
    /\ nextCalls[m] = 1

\* C7: when getUser fails because the IdP cannot be reached,
\* authenticateToken answers 500, not the 403 of a refused token.
C7_StrictNetworkErrorIs500 ==
  \A m \in MwReqs :
    (Strict(m) /\ mwPc[m] = "done" /\ getUser[m] = "NetworkingError") =>
      res[m].status = 500

\* C8: every request through optionalAuth - no token, refused token, valid
\* token, unreachable IdP - has next() called exactly once, eventually, and
\* gets no response from the middleware.
C8_OptionalAlwaysProceeds ==
  /\ [](\A m \in MwReqs : Permissive(m) =>
          /\ nextCalls[m] <= 1
          /\ res[m] = NoResponse
          /\ mwPc[m] = "done" => nextCalls[m] = 1)
  /\ \A m \in MwReqs : Permissive(m) ~> (nextCalls[m] = 1)

C8_Witness ==
  /\ Permissive("m1") /\ getUser["m1"] = "NetworkingError"
  /\ nextCalls["m1"] = 1
  /\ Permissive("m2") /\ getUser["m2"] = "NotAuthorizedException"
  /\ nextCalls["m2"] = 1

\* C9: when optionalAuth invokes the handler, req.user and req.accessToken
\* are set if and only if a token was present and verifyToken returned
\* success for it.
C9_OptionalIdentityIff ==
  \A m \in MwReqs :
    (Permissive(m) /\ nextCalls[m] >= 1) =>
      LET valid == HasToken(headers[m]) /\ getUser[m] = "resolved"
      IN /\ (handlerSaw[m].user # Unset) <=> valid
         /\ (handlerSaw[m].accessToken # Unset) <=> valid
         /\ valid => /\ verified[m] = "success"
                     /\ handlerSaw[m].accessToken = ExtractToken(headers[m])

C9_Witness ==
  /\ Permissive("m1") /\ getUser["m1"] = "resolved"
  /\ handlerSaw["m1"].user # Unset
  /\ Permissive("m2") /\ getUser["m2"] = "NotAuthorizedException"
  /\ nextCalls["m2"] = 1 /\ handlerSaw["m2"].user = Unset

(***************************************************************************)
(* Properties of the redirect flow                                         *)
(***************************************************************************)
NothingWritten(r) == writes[r] = [userInfo |-> 0, tokens |-> 0]

\* the state of the request differed from the one the session held
StateMismatch(r) ==
  /\ cbStored[r] # NotRead
  /\ cbParams[r].state # cbStored[r].state

\* C10: a /callback request whose state differs from the state stored in
\* the session ends in the failure exit for a state mismatch, without an
\* exchange being tried, and writes neither session.tokens nor
\* session.userInfo.
C10_StateMismatchFails ==
  \A r \in CbReqs :
    StateMismatch(r) =>
      /\ pc[r] \in {"catch", "done"}
      /\ cbErr[r] = "state mismatch"
      /\ pc[r] = "done" => redirect[r] = ErrorRedirect
      /\ exchanges[r] = 0
      /\ NothingWritten(r)

C10_Witness ==
  \E r \in CbReqs :
    /\ pc[r] = "done"
    /\ cbStored[r].state = "x" /\ cbParams[r].state = "y"
    /\ redirect[r] = ErrorRedirect
    /\ session.tokens = Unset

\* the request passed the readiness gate and had its state validated
Validated(r) == cbStored[r] # NotRead

\* C11: a /callback request with a valid code and matching state and nonce,
\* handled while the client is ready and with no step failing, ends in
\* SessionPersisted: session.tokens and session.userInfo are populated, each
\* written exactly once by the request, and the browser is sent to '/'.
C11_ValidCallbackPersists ==
  \A r \in CbReqs :
    /\ writes[r].userInfo <= 1 /\ writes[r].tokens <= 1
    /\ (/\ pc[r] = "done"
        /\ Validated(r)
        /\ cbParams[r].code = "good"
        /\ cbParams[r].state = cbStored[r].state
        /\ cbErr[r] = Undefined)
       => /\ redirect[r] = "/"
          /\ writes[r] = [userInfo |-> 1, tokens |-> 1]
          /\ exchanges[r] = 1
          /\ session.userInfo = {"userInfo"}
          /\ session.tokens = {[accessToken |-> "at", idToken |-> "it",
                                refreshToken |-> "rt"]}

C11_Witness ==
  \E r \in CbReqs :
    /\ pc[r] = "done"
    /\ cbParams[r].code = "good"
    /\ cbParams[r].state = "x" /\ cbStored[r].state = "x"
    /\ cbStored[r].nonce = "n"
    /\ redirect[r] = "/"
    /\ session.tokens # Unset /\ session.userInfo # Unset

\* C12 as claimed: on every failure exit of /callback the browser is sent
\* to the login page with the opaque error indicator.
C12_EveryFailureCarriesIndicator ==
  \A r \in CbReqs :
    (pc[r] = "done" /\ redirect[r] # "/") =>
      redirect[r] = "/login?error=authentication_failed"

\* C12 as amended: a request turned away because the client is not ready is
\* sent to /login without error indicator; on every other failure exit the
\* browser is sent to /login?error=authentication_failed; no redirect
\* carries the text of the error caught.
C12_FailureRedirects ==
  \A r \in CbReqs :
    pc[r] = "done" =>
      /\ redirect[r] \in {"/", "/login", "/login?error=authentication_failed"}
      /\ redirect[r] # cbErr[r]
      /\ (~Validated(r) /\ cbErr[r] = Undefined) => redirect[r] = "/login"
      /\ cbErr[r] # Undefined =>
           redirect[r] = "/login?error=authentication_failed"

C12_Witness ==
  /\ pc["r1"] = "done" /\ ~Validated("r1") /\ redirect["r1"] = "/login"
  /\ pc["r2"] = "done" /\ cbErr["r2"] = "code exchange error"
  /\ redirect["r2"] = "/login?error=authentication_failed"

C14_PersistedOnlyWithStoredState ==
  \A r \in CbReqs :
    writes[r].tokens > 0 =>
      (cbStored[r].state \in StateVals /\ cbStored[r].nonce \in NonceVals)

(***************************************************************************)
(* Properties of the Identity Provider adapter                             *)
(***************************************************************************)
\* what a call sent, how the IdP answered and what the operation returned
RequestOf(c) == CHOOSE request \in authCall[c].request : TRUE
OutcomeOf(c) == CHOOSE outcome \in authCall[c].outcome : TRUE
CompletionOf(c) == CHOOSE completion \in authCall[c].result : TRUE
EnvelopeOf(c) == CHOOSE envelope \in CompletionOf(c).envelope : TRUE
HttpOf(c) == CHOOSE response \in authCall[c].http : TRUE

\* COGNITO_CLIENT_SECRET is set to a non-empty string
SecretConfigured ==
  \E secret \in Config.ClientSecret : secret # <<>>

UsernameOps == {"signUp", "confirmSignUp", "resendConfirmationCode", "signIn"}

\* C15: a request of signUp, confirmSignUp, resendConfirmationCode or signIn
\* has a Secret Hash field exactly when a client secret is configured; the
\* field then holds the hash of that call's username, and without a secret
\* it is left out, never sent empty.
C15_SecretHashIffConfigured ==
  \A c \in Calls :
    authCall[c].op \in UsernameOps =>
      IF SecretConfigured
        THEN \E secret \in Config.ClientSecret,
                username \in RequestOf(c).Username :
               RequestOf(c).SecretHash =
                 {HmacSha256Base64(secret, username \o Config.ClientId)}
        ELSE RequestOf(c).SecretHash = {}

C15_Witness ==
  /\ authCall["c1"].op = "signUp" /\ authCall["c2"].op = "signIn"
  /\ RequestOf("c1").Username = {<<"a">>}
  /\ RequestOf("c2").Username = {<<"b">>}
  /\ SecretConfigured
  /\ RequestOf("c1").SecretHash # {}
  /\ RequestOf("c1").SecretHash # RequestOf("c2").SecretHash

\* C16: a request of refreshToken has a Secret Hash field exactly when a
\* client secret is configured.
C16_RefreshCarriesSecretHash ==
  \A c \in Calls :
    authCall[c].op = "refreshToken" =>
      (RequestOf(c).SecretHash # {} <=> SecretConfigured)

\* the inputs of two calls differ in exactly one of username, client id and
\* client secret
DifferInOne(a, b) ==
  Cardinality({f \in {"username", "ClientId", "ClientSecret"} :
     IF f = "username" THEN a.username # b.username
     ELSE IF f = "ClientId" THEN a.config.ClientId # b.config.ClientId
     ELSE a.config.ClientSecret # b.config.ClientSecret}) = 1

Configured(secret) == secret \in {Set(<<"k">>), Set(<<"j">>)}

\* C17: calculateSecretHash is a function of username, client id and secret:
\* equal inputs give the equal digest, inputs that differ in exactly one of
\* the three give a different key or message, and without a secret the
\* result is null, not an empty string.
C17_SecretHashFunction ==
  hashPc = "done" =>
    \A i, j \in HashCalls :
      /\ hashIn[i] = hashIn[j] => hashOut[i] = hashOut[j]
      /\ ~Configured(hashIn[i].config.ClientSecret) =>
           (hashOut[i] = Unset /\ hashOut[i] # Set(<<>>))
      /\ Configured(hashIn[i].config.ClientSecret) =>
           \E digest \in hashOut[i] : digest # <<>> /\ hashOut[i] = {digest}
      /\ (/\ DifferInOne(hashIn[i], hashIn[j])
          /\ Configured(hashIn[i].config.ClientSecret)
          /\ Configured(hashIn[j].config.ClientSecret))
           => hashOut[i] # hashOut[j]

C17_Witness ==
  /\ hashPc = "done"
  /\ hashIn[1].username = <<"a">> /\ hashIn[2].username = <<"b">>
  /\ hashIn[1].config = hashIn[2].config
  /\ hashIn[1].config.ClientSecret = Set(<<"k">>)
  /\ hashOut[1] # hashOut[2]

Settled(c) == authCall[c].result # Unset

TokenFields == {"accessToken", "idToken", "refreshToken", "expiresIn"}

\* C18: whatever the IdP call does - resolve with the expected data, with
\* partial data or with none, or reject with any error - every adapter
\* operation returns an envelope with a success flag and never throws;
\* verifyToken succeeds exactly when getUser resolved, and a failure
\* envelope carries an error.
C18_AlwaysAnEnvelope ==
  \A c \in Calls :
    Settled(c) =>
      /\ ~CompletionOf(c).threw
      /\ CompletionOf(c).envelope # {}
      /\ EnvelopeOf(c).success \in BOOLEAN
      /\ ~EnvelopeOf(c).success => "error" \in DOMAIN EnvelopeOf(c)
      /\ authCall[c].op = "verifyToken" =>
           (EnvelopeOf(c).success <=> OutcomeOf(c).resolved)

C18_Witness ==
  /\ authCall["c1"].op = "getUserInfo" /\ Settled("c1")
  /\ OutcomeOf("c1").resolved /\ OutcomeOf("c1").data = "partial"
  /\ ~EnvelopeOf("c1").success
  /\ authCall["c2"].op = "verifyToken" /\ Settled("c2")
  /\ ~OutcomeOf("c2").resolved
  /\ ~EnvelopeOf("c2").success

\* the IdP returned an authentication result
Authenticated(c) == OutcomeOf(c).resolved /\ OutcomeOf(c).data = "expected"

\* C19: signIn returns success with access token, id token, refresh token
\* and expiry exactly when the IdP returned an authentication result; in
\* every other outcome it returns a failure without any token field, and
\* POST /auth/signin answers alike.
C19_SignInTokensIffAuthenticated ==
  \A c \in Calls :
    (authCall[c].op = "signIn" /\ Settled(c)) =>
      /\ IF Authenticated(c)
           THEN /\ EnvelopeOf(c).success
                /\ TokenFields \subseteq DOMAIN EnvelopeOf(c)
                /\ \A f \in TokenFields : EnvelopeOf(c)[f] # Undefined
           ELSE /\ ~EnvelopeOf(c).success
                /\ TokenFields \cap DOMAIN EnvelopeOf(c) = {}
      /\ authCall[c].pc = "responded" =>
           IF Authenticated(c)
             THEN /\ HttpOf(c).status = 200
                  /\ TokenFields \subseteq DOMAIN HttpOf(c).body
             ELSE /\ HttpOf(c).status = 401
                  /\ TokenFields \cap DOMAIN HttpOf(c).body = {}

C19_Witness ==
  /\ authCall["c1"].op = "signIn" /\ authCall["c1"].pc = "responded"
  /\ Authenticated("c1") /\ HttpOf("c1").body.accessToken = "AccessToken"
  /\ authCall["c2"].op = "signIn" /\ authCall["c2"].pc = "responded"
  /\ OutcomeOf("c2").resolved /\ OutcomeOf("c2").data = "partial"
  /\ HttpOf("c2").status = 401

\* the IdP refused the sign-in: wrong password, unknown user, unconfirmed
\* user
RefusedSignIn(c) ==
  /\ authCall[c].op = "signIn"
  /\ Settled(c)
  /\ ~OutcomeOf(c).resolved
  /\ OutcomeOf(c).message \in {"Incorrect username or password.",
                               "User does not exist.",
                               "User is not confirmed."}

\* C20: two sign-ins with the same request that the IdP refused return the
\* same error message, whatever the IdP's reason, and POST /auth/signin
\* answers both with the same body.
C20_FailureMessageGeneric ==
  \A c, d \in Calls :
    (/\ RefusedSignIn(c) /\ RefusedSignIn(d)
     /\ RequestOf(c) = RequestOf(d)) =>
      /\ EnvelopeOf(c).error = EnvelopeOf(d).error
      /\ (authCall[c].pc = "responded" /\ authCall[d].pc = "responded") =>
           HttpOf(c).body = HttpOf(d).body

\* C21: an adapter operation called while a required setting is missing
\* sends no request to the IdP and returns a configuration failure that is
\* not one of the IdP's errors.
C21_MissingSettingAborts ==
  \A c \in Calls :
    (missingVars # {} /\ authCall[c].pc # "idle") =>
      /\ authCall[c].request = {}
      /\ authCall[c].outcome = {}
      /\ Settled(c) /\ ~EnvelopeOf(c).success
      /\ EnvelopeOf(c).error \notin IdpMessages

\* two settled calls of one operation with the same request and the same
\* IdP outcome have the same result
SameResultForSameCall ==
  \A c, d \in Calls :
    (/\ Settled(c) /\ Settled(d)
     /\ authCall[c].op = authCall[d].op
     /\ RequestOf(c) = RequestOf(d)
     /\ OutcomeOf(c) = OutcomeOf(d)) =>
      CompletionOf(c) = CompletionOf(d)

\* a step of an adapter call leaves the singleton and the readiness flag as
\* they are
AdapterStepKeepsSingleton ==
  authCall' # authCall =>
    /\ oidcClient' = oidcClient
    /\ oidcClientReady' = oidcClientReady
    /\ pc' = pc

\* C22: the result of signUp, confirmSignUp, signIn, refreshToken and
\* verifyToken is the same whether the OIDC singleton is Uninitialized,
\* Discovering, Failed or Ready, and no adapter step changes the singleton
\* or the readiness flag.
C22_PasswordFlowIsolated ==
  []SameResultForSameCall /\ [][AdapterStepKeepsSingleton]_vars

\* the discovery has failed, and a sign-in sent before it and one sent
\* after it have the same successful result
C22_Witness ==
  /\ pc[Startup] = "finished" /\ oidcClient = Null /\ ~oidcClientReady
  /\ authCall["c1"].op = "signIn" /\ authCall["c2"].op = "signIn"
  /\ Settled("c1") /\ Settled("c2")
  /\ RequestOf("c1") = RequestOf("c2")
  /\ OutcomeOf("c1") = OutcomeOf("c2")
  /\ EnvelopeOf("c1").success /\ EnvelopeOf("c2").success

\* a strict request that carries a token has called verifyToken, and with
\* it getUser, once
OneGetUserPerRequest ==
  \A m \in MwReqs :
    (Strict(m) /\ HasToken(headers[m])) => verifyCalls[m] = 1

\* next() of a strict request is called only in the step in which the IdP
\* answered the getUser call of that very request
NextOnlyOnIdpAnswer ==
  \A m \in MwReqs :
    (mwKind'[m] = "strict" /\ nextCalls'[m] # nextCalls[m]) =>
      /\ idpUp
      /\ getUser[m] = "none" /\ getUser'[m] = "resolved"

\* C23: every request with a token through authenticateToken issues exactly
\* one getUser call, nothing is cached, and while the IdP cannot be reached
\* no such request reaches its handler, even with a token that was verified
\* before.
C23_VerifiedPerRequest ==
  []OneGetUserPerRequest /\ [][NextOnlyOnIdpAnswer]_vars

\* the token of m1 was verified and m1 went through; m2 presents the same
\* token during an outage and is stopped
C23_Witness ==
  /\ Strict("m1") /\ Strict("m2")
  /\ headers["m1"] = headers["m2"] /\ HasToken(headers["m1"])
  /\ verified["m1"] = "success" /\ nextCalls["m1"] = 1
  /\ ~idpUp
  /\ getUser["m2"] = "NetworkingError"
  /\ mwPc["m2"] = "done" /\ nextCalls["m2"] = 0
  /\ verifyCalls["m2"] = 1

\* the startup discovery was rejected
StartupFailed == ret[Startup] = -1

\* the flag is set only with a client built, and never once the startup
\* discovery failed; every /callback request is then sent to /login at once
ReadyOnlyWithClient ==
  /\ oidcClientReady => (oidcClient # 0 /\ ret[Startup] = oidcClient)
  /\ StartupFailed =>
       /\ ~oidcClientReady
       /\ discoverCalls = 1
       /\ \A r \in CbReqs :
            /\ pc[r] \in {"idle", "done"}
            /\ pc[r] = "done" => redirect[r] = "/login"
            /\ ret[r] = 0
            /\ exchanges[r] = 0
            /\ NothingWritten(r)

\* the flag is written by the .then of the startup call alone
ReadyWrittenByStartup ==
  oidcClientReady' # oidcClientReady =>
    /\ pc[Startup] = "returned" /\ pc'[Startup] = "finished"
    /\ oidcClientReady'

\* C24: oidcClientReady is written only when the startup discovery
\* completes; it is true only with the client built, and after a failed
\* startup discovery it stays false, so every /callback request redirects
\* to /login without getOIDCClient, code exchange or session write, and no
\* discovery is tried again.
C24_ReadyFlagStartupOnly ==
  []ReadyOnlyWithClient /\ [][ReadyWrittenByStartup]_vars

C24_Witness ==
  /\ StartupFailed /\ pc[Startup] = "finished" /\ ~oidcClientReady
  /\ pc["r1"] = "done" /\ redirect["r1"] = "/login"
  /\ pc["r2"] = "done" /\ redirect["r2"] = "/login"
  /\ cbParams["r1"].code = "good"

(***************************************************************************)
(* Properties of /api/courses                                              *)
(***************************************************************************)
ResponseOf(q) == CHOOSE response \in courseReq[q].res : TRUE
Answered(q) == courseReq[q].res # {}

\* the messages in the queue that request q published
PublishedBy(q) == {i \in 1..Len(sqsQueue) : sqsQueue[i].by = q}

\* C25: a COURSE_CREATED message is published only by a request whose
\* insert was committed, and it carries the committed row; a request that
\* was rejected or rolled back publishes nothing; once COMMIT succeeded the
\* request is answered 201 with sqs.sent equal to the result of the
\* publish, whatever that result is.
C25_PublishAfterCommit ==
  \A p \in PostReqs :
    /\ \A i \in PublishedBy(p) :
         /\ courseReq[p].committed
         /\ sqsQueue[i].eventType = "COURSE_CREATED"
         /\ sqsQueue[i].course = courseReq[p].row
    /\ Cardinality(PublishedBy(p)) <= 1
    /\ (Answered(p) /\ ResponseOf(p).status # 201) =>
         (~courseReq[p].committed /\ PublishedBy(p) = {})
    /\ courseReq[p].committed =>
         /\ courseReq[p].pc \in {"publish", "done"}
         /\ courseReq[p].pc = "done" =>
              /\ ResponseOf(p).status = 201
              /\ \E sqsResult \in courseReq[p].sqs :
                   /\ ResponseOf(p).sent = sqsResult.success
                   /\ sqsResult.success <=> PublishedBy(p) # {}

C25_Witness ==
  /\ courseReq["p1"].pc = "done" /\ courseReq["p1"].committed
  /\ ResponseOf("p1").status = 201 /\ ~ResponseOf("p1").sent
  /\ courseReq["p2"].pc = "done" /\ courseReq["p2"].committed
  /\ ResponseOf("p2").status = 201 /\ ResponseOf("p2").sent
  /\ Len(sqsQueue) = 1

\* every POST request has a valid body, met no database fault and is done
AllPostsDone ==
  \A p \in PostReqs :
    /\ courseReq[p].pc = "done"
    /\ courseReq[p].body.valid
    /\ ~courseReq[p].faulted

\* C26: a POST request is answered 409 only if a course with its code is
\* stored; and when all requests have distinct codes that no stored course
\* had, all are answered 201, with distinct ids.
C26_No409WithoutDuplicate ==
  /\ \A p \in PostReqs :
       (Answered(p) /\ ResponseOf(p).status = 409) =>
         \E row \in courses : row.code = courseReq[p].body.code
  /\ (/\ AllPostsDone
      /\ \A p, q \in PostReqs :
           p # q => courseReq[p].body.code # courseReq[q].body.code)
       => \A p, q \in PostReqs :
            /\ ResponseOf(p).status = 201
            /\ p # q => courseReq[p].row.id # courseReq[q].row.id

\* C27: the database client of a POST or DELETE request is released exactly
\* once on every path that obtained it - validation rejection, duplicate or
\* not-found rollback, commit, an error at any step, a failing ROLLBACK -
\* never before the handler is done, and no query is issued on it after
\* the release.
C27_ClientReleasedOnce ==
  \A q \in CourseReqs :
    /\ courseReq[q].released <= courseReq[q].acquired
    /\ courseReq[q].pc = "done" =>
         courseReq[q].released = courseReq[q].acquired
    /\ courseReq[q].pc \notin {"idle", "connect", "done"} =>
         (courseReq[q].acquired = 1 /\ courseReq[q].released = 0)
    /\ ~courseReq[q].late

\* the ROLLBACK of the catch of a POST failed and a DELETE ended with 404
C27_Witness ==
  /\ courseReq["p1"].pc = "done" /\ courseReq["p1"].threw
  /\ courseReq["p1"].acquired = 1 /\ courseReq["p1"].released = 1
  /\ courseReq["p2"].pc = "done" /\ Answered("p2")
  /\ ResponseOf("p2").status = 400
  /\ courseReq["p2"].released = 1
  /\ courseReq["d1"].pc = "done" /\ Answered("d1")
  /\ ResponseOf("d1").status = 404
  /\ courseReq["d1"].released = 1

(***************************************************************************)
(* Properties of fetchInstanceIdentity                                     *)
(***************************************************************************)
\* the cache holds a record of the metadata service that is still valid
ImdsCacheValid ==
  /\ clock < cacheUntil
  /\ \E rec \in cache : rec.source = "imds-v2"

\* a step taken while such a record is cached keeps it, and a call that
\* starts returns it without a request
KeepsValidImdsRecord ==
  ImdsCacheValid =>
    /\ \A rec \in cache' : rec.source # "env-fallback"
    /\ \A c \in ImdsCalls :
         (imdsCall[c].pc = "idle" /\ imdsCall'[c].pc # "idle") =>
           (imdsCall'[c].ret = cache /\ imdsCall'[c].requests = 0)

\* C28: while an 'imds-v2' record is cached and valid, no step replaces it
\* by an 'env-fallback' record and every call that starts returns it
\* without a network call, also when other calls started before the cache
\* was filled.
C28_ValidImdsCacheKept == [][KeepsValidImdsRecord]_vars

\* C29: a call that is done returned a record of source 'imds-v2' or
\* 'env-fallback' and did not throw; its timer, if it armed one, is cleared;
\* a fallback record served from the cache was built less than a minute
\* before the call, so that later calls ask the metadata service again.
C29_AlwaysARecord ==
  /\ \A c \in ImdsCalls :
       /\ ~imdsCall[c].threw
       /\ imdsCall[c].timer = "armed" <=> imdsCall[c].pc = "fetching"
       /\ imdsCall[c].pc = "done" =>
            /\ imdsCall[c].timer = "none" <=> imdsCall[c].requests = 0
            /\ \E rec \in imdsCall[c].ret :
                 /\ imdsCall[c].ret = {rec}
                 /\ rec.source \in {"imds-v2", "env-fallback"}
                 /\ (rec.source = "env-fallback" /\ imdsCall[c].requests = 0)
                      => imdsCall[c].now - rec.fetchedAt < 1
  /\ \A rec \in cache :
       rec.source = "env-fallback" => cacheUntil - rec.fetchedAt <= 1

\* i1 was served the fallback from the cache; a minute later i2 asked the
\* metadata service again
C29_Witness ==
  /\ imdsCall["i1"].pc = "done" /\ imdsCall["i1"].requests = 0
  /\ imdsCall["i1"].ret = {FallbackRecord("IMDS timeout", 0)}
  /\ imdsCall["i2"].pc = "done" /\ imdsCall["i2"].requests = 1
  /\ imdsCall["i2"].now = 1
  /\ imdsCall["i2"].ret = {FallbackRecord("fetch failed", 1)}

(***************************************************************************)
(* Properties of waitForFileMetadata                                       *)
(***************************************************************************)
\* a lookup result that carries metadata
FoundMetadata(result) == result.success /\ result.metadata # Unset

WaitReturned == waitCall.pc = "returned"

\* what the call returned
WaitResult == CHOOSE r \in waitCall.ret : TRUE

\* the call returns only the result of its last poll when that poll found
\* metadata and no earlier one did, and only the timeout failure when no
\* poll found metadata and maxWaitTime has elapsed since startTime; with
\* maxWaitTime <= 0 there is no lookup
WaitReturnsPollOrTimeout ==
  /\ waitCall.maxWaitTime <= 0 => waitCall.polls = <<>>
  /\ \A i \in 1 .. Len(waitCall.polls) - 1 : ~FoundMetadata(waitCall.polls[i])
  /\ WaitReturned =>
       /\ waitCall.ret # Unset
       /\ IF WaitResult.success
            THEN /\ waitCall.polls # <<>>
                 /\ WaitResult = waitCall.polls[Len(waitCall.polls)]
                 /\ FoundMetadata(WaitResult)
            ELSE /\ WaitResult.error = "Timeout waiting for file metadata"
                 /\ WaitResult.metadata = Unset
                 /\ \A i \in 1 .. Len(waitCall.polls) :
                      ~FoundMetadata(waitCall.polls[i])
                 /\ wallClock - waitCall.startTime >= waitCall.maxWaitTime

\* after the return there is no further poll
NoPollAfterReturn == WaitReturned => waitCall' = waitCall

\* C30: when every lookup returns, a waitForFileMetadata call returns for
\* every maxWaitTime and pollInterval; a success result is the result of a
\* poll that found metadata, returned without further polls; any other
\* return is the failure 'Timeout waiting for file metadata', made once the
\* elapsed time has reached maxWaitTime; with maxWaitTime <= 0 no lookup is
\* performed
C30_WaitTerminates ==
  /\ []WaitReturnsPollOrTimeout
  /\ [][NoPollAfterReturn]_vars
  /\ (waitCall.pc # "idle") ~> WaitReturned

\* the second poll found metadata after the first found none, with a
\* non-positive pollInterval
C30_Witness ==
  /\ WaitReturned
  /\ waitCall.pollInterval <= 0
  /\ Len(waitCall.polls) = 2
  /\ ~waitCall.polls[1].success
  /\ waitCall.ret = {FoundResult(<<"m2", "m1">>)}

====
